---- MODULE Spec2Model ----
(***************************************************************************)
(* Recipe execution engine (amplifier_module_tool_recipes): the flat and   *)
(* the staged driver of executor.py, the session store of session.py and   *)
(* the approve / deny / resume operations of the tool in __init__.py.      *)
(*                                                                         *)
(* One session of one recipe is followed from its creation.  The driver    *)
(* advances one step of the recipe per action (its suspension point is the *)
(* spawner call inside the step); the operations of the tool act on the    *)
(* session while no driver runs.                                           *)
(*                                                                         *)
(* Spec follows every recipe of the family.  SpecSteps follows the step    *)
(* loops of the recipes without approval gates, SpecGates the gates of the *)
(* staged recipes whose steps carry neither condition nor on_error.        *)
(* SpecCalls follows one top-level execution through its sub-recipe calls, *)
(* SpecLoops through its foreach loops: there the drivers are call stacks  *)
(* of frames, one stack for the main driver and one per parallel iteration.*)
(* SpecRetry follows one call of execute_step_with_retry through its       *)
(* attempts and waits.                                                     *)
(*                                                                         *)
(* A Python dict whose keys may be missing is a record with every field    *)
(* present: a missing list is <<>>, a missing index is 0, a missing        *)
(* stage_approvals entry is "absent" and a missing pending approval is the *)
(* empty sequence, which is how the code reads them (state.get(k, dflt)).  *)
(***************************************************************************)
EXTENDS Integers, Sequences, FiniteSets, TLC

VARIABLES
    recipe,       \* the recipe of the session (immutable once loaded)
    created,      \* TRUE once create_session has run
    exists,       \* the session directory with its state.json is on disk
    disk,         \* the content of state.json (BlankState when there is none)
    now,          \* the clock (one unit for approval timeouts and session age)
    pc,           \* "idle", or the driver's position: "flat" / "staged"
    mem,          \* the running driver's local variables
    outcome,      \* what the last tool operation returned or raised
    spawn,        \* the step id the last action passed to the spawner, or ""
    failures,     \* number of steps that failed so far (spawner or condition)
    library,      \* the recipe files of the project, by recipe name
    tasks,        \* the call stacks of the driver (0) and of the parallel iterations
    sessions,     \* the session directories create_session has made, by session id
    calls,        \* counters: entries into execute_recipe, spawner invocations
    raised,       \* how the top-level execute_recipe of a composed run ended
    retrying,     \* the locals of one execute_step_with_retry call, and what it did
    file          \* state.json as the file system holds it during save_state

\* The variables of a composed run (sub-recipes and foreach loops).
composed == <<library, tasks, sessions, calls, raised>>

\* The variables of one call followed on its own (a step and its retries, a
\* save of the state file).
detail == <<retrying, file>>

vars ==
    <<recipe, created, exists, disk, now, pc, mem, outcome, spawn, failures, composed,
      detail>>

----------------------------------------------------------------------------
(* Bounds of the model *)

MaxSteps == 3          \* steps of a recipe
MaxFeatures == 1       \* conditions and on_error settings of a recipe, together
MaxGates == 1          \* stages of a recipe that require approval
MaxFailures == 1       \* failing steps in one behaviour
MaxHistory == 2        \* entries of approval_history at an approve or deny
MaxTimeout == 1        \* largest approval timeout, in units of the clock

MaxCallSteps == 2      \* steps of a recipe of a composed run
MaxDepthLimit == 2     \* largest recursion.max_depth
MaxBudget == 3         \* largest recursion.max_total_steps
MaxItems == 2          \* items of a foreach list

MaxAttempts == 3       \* largest retry.max_attempts
MaxDelay == 4          \* largest retry.initial_delay and retry.max_delay, in seconds

MaxStages == MaxSteps - 1
AutoCleanupDays == MaxTimeout       \* the configured auto_cleanup_days
MaxTime == AutoCleanupDays + 1      \* the clock stops here

----------------------------------------------------------------------------
(* Names *)

StepIdTable == <<"a", "b", "c", "d", "e", "f">>
OutputTable == <<"out_a", "out_b", "out_c", "out_d", "out_e", "out_f">>
StageNameTable == <<"plan", "build", "ship", "verify", "release">>

StageNames == {StageNameTable[k] : k \in 1..(MaxStages)}
OtherStage == "other"    \* a stage name that no recipe of the model uses
StageNameInputs == StageNames \cup {OtherStage}
VarNames == {"flag"} \cup {OutputTable[k] : k \in 1..MaxSteps}

Null == "null"           \* Python's None as a value of the context
Undefined == "undefined" \* the key is not in the context
NoTime == 0 - 1          \* no timestamp

\* ApprovalStatus
PENDING == "pending"
APPROVED == "approved"
DENIED == "denied"
NOT_REQUIRED == "not_required"
TIMEOUT == "timeout"
Absent == "absent"       \* no entry in stage_approvals

Range(s) == {s[k] : k \in 1..Len(s)}

IsPrefix(s, t) == Len(s) <= Len(t) /\ \A k \in 1..Len(s) : s[k] = t[k]

RECURSIVE SumSeq(_)
SumSeq(s) == IF Len(s) = 0 THEN 0 ELSE s[Len(s)] + SumSeq(SubSeq(s, 1, Len(s) - 1))

----------------------------------------------------------------------------
(* Recipes *)

NoCondition == [var |-> "", op |-> "", lit |-> ""]
Conditions ==
    { NoCondition,
      [var |-> "flag", op |-> "==", lit |-> "yes"],
      [var |-> "flag", op |-> "!=", lit |-> "yes"],
      [var |-> OutputTable[1], op |-> "==", lit |-> StepIdTable[1]] }

OnErrors == {"fail", "continue", "skip_remaining"}

NoApproval == [required |-> FALSE, timeout |-> 0, default |-> "deny"]
ApprovalConfigs ==
    {NoApproval} \cup
    [required : {TRUE}, timeout : 0..MaxTimeout, default : {"approve", "deny"}]

\* prompt: the variable the step's prompt refers to ("{{var}}"), "" for a
\* prompt without references.
Step(k, attr) ==
    [id |-> StepIdTable[k], output |-> OutputTable[k],
     condition |-> attr[1], on_error |-> attr[2], prompt |-> ""]

WithPrompts(ss, prompts) == [k \in 1..Len(ss) |-> [ss[k] EXCEPT !.prompt = prompts[k]]]

\* The step lists of n steps with at most `features` conditions and on_error
\* settings, together.
StepSeqs(n, features) ==
    { [k \in 1..n |-> Step(k, f[k])] :
        f \in { g \in [1..n -> Conditions \X OnErrors] :
                  Cardinality({k \in 1..n : g[k][1] # NoCondition})
                    + Cardinality({k \in 1..n : g[k][2] # "fail"}) <= features } }

\* The ways to cut n steps into m stages of at least one step each.
RECURSIVE Splits(_, _)
Splits(n, m) ==
    IF m = 1 THEN {<<n>>}
    ELSE UNION { {<<first>> \o rest : rest \in Splits(n - first, m - 1)} :
                 first \in 1..(n - m + 1) }

StagePrompt(k) == StageNameTable[k]

Stage(k, steps, approval) ==
    [name |-> StageNameTable[k], steps |-> steps,
     approval |-> [required |-> approval.required, prompt |-> StagePrompt(k),
                   timeout |-> approval.timeout, default |-> approval.default]]

StagesOf(ss, split, approvals) ==
    [k \in 1..Len(split) |->
        Stage(k,
              SubSeq(ss, SumSeq(SubSeq(split, 1, k - 1)) + 1, SumSeq(SubSeq(split, 1, k))),
              approvals[k])]

RecipeContext == [flag |-> "yes"]

\* RecursionConfig defaults
DefaultMaxDepth == 5
DefaultMaxTotalSteps == 100
DefaultRecursion == [max_depth |-> DefaultMaxDepth, max_total_steps |-> DefaultMaxTotalSteps]

FlatRecipes(features) ==
    UNION { { [steps |-> ss, stages |-> <<>>, context |-> RecipeContext,
                recursion |-> DefaultRecursion] :
              ss \in StepSeqs(n, features) } : n \in 1..MaxSteps }

\* ... and at most `gates` stages that require approval.
StagedRecipesOf(n, m, features, gates) ==
    { [steps |-> <<>>, stages |-> StagesOf(ss, split, approvals),
       context |-> RecipeContext, recursion |-> DefaultRecursion] :
        ss \in StepSeqs(n, features), split \in Splits(n, m),
        approvals \in { a \in [1..m -> ApprovalConfigs] :
                          Cardinality({k \in 1..m : a[k].required}) <= gates } }

StagedRecipes(features, gates) ==
    UNION { StagedRecipesOf(p[1], p[2], features, gates) :
            p \in {q \in (1..MaxSteps) \X (1..MaxStages) : q[2] <= q[1]} }

is_staged(r) == Len(r.stages) > 0

get_all_steps(r) ==
    IF is_staged(r)
    THEN [k \in 1..SumSeq([j \in 1..Len(r.stages) |-> Len(r.stages[j].steps)]) |->
            LET st == CHOOSE j \in 1..Len(r.stages) :
                        /\ SumSeq([x \in 1..(j - 1) |-> Len(r.stages[x].steps)]) < k
                        /\ k <= SumSeq([x \in 1..j |-> Len(r.stages[x].steps)])
            IN r.stages[st].steps[k - SumSeq([x \in 1..(st - 1) |-> Len(r.stages[x].steps)])]]
    ELSE r.steps

----------------------------------------------------------------------------
(* Context and conditions *)

NoStepMeta == [id |-> "", index |-> 0 - 1, stage |-> ""]
NoStageMeta == [name |-> "", index |-> 0 - 1]

\* The context a run starts from: {**recipe.context, **context_vars} with no
\* caller variables (context_vars = {}).
InitialContext(r) ==
    [vars |-> [v \in VarNames |-> IF v = "flag" THEN r.context.flag ELSE Undefined],
     skipped_steps |-> <<>>, step |-> NoStepMeta, stage |-> NoStageMeta]

\* evaluate_condition on the conditions of the model: "{{var}} op 'lit'".
\* _resolve_variable yields None for a missing key and for a None value, and
\* _substitute_variables raises for both.
evaluate_condition(c, context) ==
    IF context.vars[c.var] \in {Undefined, Null} THEN "error"
    ELSE IF c.op = "==" THEN (IF context.vars[c.var] = c.lit THEN "true" ELSE "false")
    ELSE (IF context.vars[c.var] # c.lit THEN "true" ELSE "false")

\* "if step.condition:" then evaluate; a step without condition runs.
ConditionResult(step, context) ==
    IF step.condition = NoCondition THEN "true"
    ELSE evaluate_condition(step.condition, context)

\* Variant of AppendSkipped that keeps the list as it is.
AppendSkippedNothing(context, id) == context

AppendSkipped(context, id) ==
    [context EXCEPT !.skipped_steps = Append(@, id)]

\* The spawner's result for a step: an opaque value, here named after the step.
SpawnResult(step) == step.id

\* substitute_variables on the step's prompt raises "Undefined variable": the
\* name is no key of the context (a key that holds None is rendered "None").
PromptFails(step, context) ==
    step.prompt # "" /\ context.vars[step.prompt] = Undefined

StoreOutput(context, step, result) ==
    [context EXCEPT !.vars[step.output] = result]

----------------------------------------------------------------------------
(* Session store (session.py) *)

NoApprovals == [n \in StageNameInputs |-> Absent]

BlankState ==
    [started |-> NoTime, current_step_index |-> 0,
     current_stage_index |-> 0, current_step_in_stage |-> 0,
     context |-> [vars |-> [v \in VarNames |-> Undefined], skipped_steps |-> <<>>,
                  step |-> NoStepMeta, stage |-> NoStageMeta],
     completed_steps |-> <<>>, completed_stages |-> <<>>, is_staged |-> FALSE,
     pending |-> <<>>, stage_approvals |-> NoApprovals, approval_history |-> <<>>]

create_session(r, t) ==
    [BlankState EXCEPT !.started = t, !.context = InitialContext(r)]

get_stage_approval_status(state, stage_name) ==
    IF state.stage_approvals[stage_name] = Absent THEN NOT_REQUIRED
    ELSE state.stage_approvals[stage_name]

\* (the timestamp of a history entry is left out)
set_stage_approval_status(state, stage_name, status, reason) ==
    [state EXCEPT
        !.stage_approvals[stage_name] = status,
        !.approval_history =
            Append(@, [stage |-> stage_name, status |-> status, reason |-> reason])]

get_pending_approval(state) ==
    IF state.pending = <<>> THEN <<>>
    ELSE << [stage_name |-> state.pending[1].stage,
             approval_prompt |-> state.pending[1].prompt,
             approval_timeout |-> state.pending[1].timeout,
             approval_requested_at |-> state.pending[1].requested_at,
             approval_default |-> state.pending[1].default] >>

\* Variant of set_pending_approval that does not store the prompt.
set_pending_approval_no_prompt(state, stage_name, prompt, timeout, default, t) ==
    [state EXCEPT
        !.pending = << [stage |-> stage_name, prompt |-> "", timeout |-> timeout,
                        default |-> default, requested_at |-> t] >>,
        !.stage_approvals[stage_name] = PENDING]

set_pending_approval(state, stage_name, prompt, timeout, default, t) ==
    [state EXCEPT
        !.pending = << [stage |-> stage_name, prompt |-> prompt, timeout |-> timeout,
                        default |-> default, requested_at |-> t] >>,
        !.stage_approvals[stage_name] = PENDING]

clear_pending_approval(state) == [state EXCEPT !.pending = <<>>]

\* list_pending_approvals of the project (present: the session directory with
\* its state file is there): the session's entry when it carries a pending approval.
list_pending_approvals(present, state) ==
    IF present /\ get_pending_approval(state) # <<>>
    THEN {get_pending_approval(state)[1]}
    ELSE {}

\* Variant of check_approval_timeout that takes every default for "approve".
check_approval_timeout_approving(state, t) ==
    LET info == get_pending_approval(state) IN
    IF info = <<>> THEN [result |-> "none", state |-> state]
    ELSE IF info[1].approval_requested_at = NoTime \/ info[1].approval_timeout = 0
    THEN [result |-> "none", state |-> state]
    ELSE IF t - info[1].approval_requested_at >= info[1].approval_timeout
    THEN [result |-> APPROVED,
          state |-> clear_pending_approval(
              set_stage_approval_status(state, info[1].stage_name, APPROVED,
                                        "Timeout - auto-approved"))]
    ELSE [result |-> "none", state |-> state]

\* Variant of check_approval_timeout without the "timeout == 0" early return.
check_approval_timeout_zero_expires(state, t) ==
    LET info == get_pending_approval(state) IN
    IF info = <<>> THEN [result |-> "none", state |-> state]
    ELSE IF info[1].approval_requested_at = NoTime
    THEN [result |-> "none", state |-> state]
    ELSE IF t - info[1].approval_requested_at >= info[1].approval_timeout
    THEN IF info[1].approval_default = "approve"
         THEN [result |-> APPROVED,
               state |-> clear_pending_approval(
                   set_stage_approval_status(state, info[1].stage_name, APPROVED,
                                             "Timeout - auto-approved"))]
         ELSE [result |-> TIMEOUT,
               state |-> clear_pending_approval(
                   set_stage_approval_status(state, info[1].stage_name, TIMEOUT,
                                             "Timeout - auto-denied"))]
    ELSE [result |-> "none", state |-> state]

\* check_approval_timeout: the decision it returns ("none" for None) and the
\* state it leaves on disk.
check_approval_timeout(state, t) ==
    LET info == get_pending_approval(state) IN
    IF info = <<>> THEN [result |-> "none", state |-> state]
    ELSE IF info[1].approval_requested_at = NoTime \/ info[1].approval_timeout = 0
    THEN [result |-> "none", state |-> state]
    ELSE IF t - info[1].approval_requested_at >= info[1].approval_timeout
    THEN IF info[1].approval_default = "approve"
         THEN [result |-> APPROVED,
               state |-> clear_pending_approval(
                   set_stage_approval_status(state, info[1].stage_name, APPROVED,
                                             "Timeout - auto-approved"))]
         ELSE [result |-> TIMEOUT,
               state |-> clear_pending_approval(
                   set_stage_approval_status(state, info[1].stage_name, TIMEOUT,
                                             "Timeout - auto-denied"))]
    ELSE [result |-> "none", state |-> state]

\* cleanup_old_sessions: the session directory is removed when started < now - days.
cleanup_old_sessions(state, t) == t - state.started > AutoCleanupDays

----------------------------------------------------------------------------
(* Driver state (executor.py) *)

NoMem ==
    [context |-> BlankState.context, completed_steps |-> <<>>,
     completed_stages |-> <<>>, started |-> NoTime, total_steps |-> 0,
     i |-> 0, state_index |-> 0 - 1,
     stage_idx |-> 0, step_idx |-> 0,
     current_stage_index |-> 0, current_step_in_stage |-> 0]

NoOutcome ==
    [status |-> "none", error |-> "", stage |-> "", prompt |-> "",
     context |-> BlankState.context, handler_saves |-> 0]

Running == [NoOutcome EXCEPT !.status = "running"]
Failed(error) == [NoOutcome EXCEPT !.status = "error", !.error = error]

\* The state dict the flat driver checkpoints (executor.py 270-279): it aliases
\* the live context and completed_steps and carries no approval field.
FlatState(m, index) ==
    [BlankState EXCEPT !.started = m.started, !.current_step_index = index,
                       !.context = m.context, !.completed_steps = m.completed_steps]

\* _save_staged_state: again a fresh dict without approval fields.
StagedState(m, stage_index, step_in_stage) ==
    [BlankState EXCEPT !.started = m.started,
                       !.current_stage_index = stage_index,
                       !.current_step_in_stage = step_in_stage,
                       !.context = m.context,
                       !.completed_stages = m.completed_stages,
                       !.completed_steps = m.completed_steps,
                       !.is_staged = TRUE]

\* Locals of a new run.
NewLocals(r, t) == [NoMem EXCEPT !.context = InitialContext(r), !.started = t]

\* Variant of ResumeFlatLocals that starts from an empty completed_steps list.
ResumeFlatLocalsFresh(state) ==
    [NoMem EXCEPT !.i = state.current_step_index, !.context = state.context,
                  !.started = state.started]

\* Locals of a flat resume, loaded from the state file.
ResumeFlatLocals(state) ==
    [NoMem EXCEPT !.i = state.current_step_index, !.context = state.context,
                  !.completed_steps = state.completed_steps,
                  !.started = state.started]

\* Locals of a staged resume, loaded from the state file.
ResumeStagedLocals(state) ==
    [NoMem EXCEPT !.stage_idx = state.current_stage_index,
                  !.step_idx = state.current_step_in_stage,
                  !.current_stage_index = state.current_stage_index,
                  !.current_step_in_stage = state.current_step_in_stage,
                  !.completed_stages = state.completed_stages,
                  !.completed_steps = state.completed_steps,
                  !.context = state.context, !.started = state.started]

\* Variant of ResumeApproval that lets a resume run on while the approval is
\* still pending.
ResumeApprovalPendingContinues(state, t) ==
    LET pending == get_pending_approval(state) IN
    IF pending = <<>> THEN [raise |-> "", state |-> state, stage |-> "", prompt |-> ""]
    ELSE
      LET stage_name == pending[1].stage_name
          approval_status == get_stage_approval_status(state, stage_name)
          timeout_result == check_approval_timeout(state, t)
          r == [raise |-> "", state |-> timeout_result.state, stage |-> stage_name,
                prompt |-> pending[1].approval_prompt]
      IN IF timeout_result.result = TIMEOUT THEN [r EXCEPT !.raise = "timeout_denied"]
         ELSE IF timeout_result.result = APPROVED
         THEN [r EXCEPT !.state = clear_pending_approval(timeout_result.state)]
         ELSE IF approval_status = DENIED THEN [r EXCEPT !.raise = "denied"]
         ELSE IF approval_status = APPROVED
         THEN [r EXCEPT !.state = clear_pending_approval(timeout_result.state)]
         ELSE r

\* The pending-approval handling of a staged resume: what it raises ("" when
\* execution continues) and the state it leaves on disk.
ResumeApproval(state, t) ==
    LET pending == get_pending_approval(state) IN
    IF pending = <<>> THEN [raise |-> "", state |-> state, stage |-> "", prompt |-> ""]
    ELSE
      LET stage_name == pending[1].stage_name
          approval_status == get_stage_approval_status(state, stage_name)
          timeout_result == check_approval_timeout(state, t)
          r == [raise |-> "", state |-> timeout_result.state, stage |-> stage_name,
                prompt |-> pending[1].approval_prompt]
      IN IF timeout_result.result = TIMEOUT THEN [r EXCEPT !.raise = "timeout_denied"]
         ELSE IF timeout_result.result = APPROVED
         THEN [r EXCEPT !.state = clear_pending_approval(timeout_result.state)]
         ELSE IF approval_status = PENDING THEN [r EXCEPT !.raise = "paused_for_approval"]
         ELSE IF approval_status = DENIED THEN [r EXCEPT !.raise = "denied"]
         ELSE IF approval_status = APPROVED
         THEN [r EXCEPT !.state = clear_pending_approval(timeout_result.state)]
         ELSE r

\* RecursionState.increment_steps: the new count, and whether check_total_steps raises.
increment_steps(total_steps) == total_steps + 1
check_total_steps(total_steps, r) == total_steps >= r.recursion.max_total_steps

\* Variant of FinalFailure that re-raises whatever on_error says.
FinalFailureRaises(on_error) == "raised"

\* What execute_step_with_retry does when the final attempt has failed: it
\* re-raises, returns None, or raises SkipRemainingError.
FinalFailure(on_error) ==
    IF on_error = "fail" THEN "raised"
    ELSE IF on_error = "continue" THEN "returned"
    ELSE "skip_remaining"

WithStep(context, step, index, stage_name) ==
    [context EXCEPT !.step = [id |-> step.id, index |-> index, stage |-> stage_name]]

WithStage(context, stage, index) ==
    [context EXCEPT !.stage = [name |-> stage.name, index |-> index]]

----------------------------------------------------------------------------
(* Composed runs: recipes with sub-recipe steps and foreach loops (models.py) *)

RecipeNames == {"A", "B"}
TopRecipe == "A"         \* the recipe the tool is asked to execute

\* A template of the model is a literal or a single reference "{{var}}".
Literal(s) == [var |-> "", lit |-> s]
Reference(v) == [var |-> v, lit |-> ""]

\* A context is a dict: a function whose domain is the set of its keys.
EmptyDict == [k \in {} |-> ""]
Merge(a, b) == [k \in DOMAIN a \cup DOMAIN b |-> IF k \in DOMAIN b THEN b[k] ELSE a[k]]
Put(d, key, value) == Merge(d, [k \in {key} |-> value])
Del(d, key) == [k \in DOMAIN d \ {key} |-> d[k]]

ReservedNames == {"recipe", "session", "step"}

DefaultMaxIterations == 100

\* Step of type "agent" (the defaults of the dataclass for the other fields).
AgentStep(k) ==
    [id |-> StepIdTable[k], type |-> "agent", prompt |-> Literal(StepIdTable[k]),
     recipe |-> "", step_context |-> EmptyDict, recursion |-> <<>>,
     foreach |-> "", as_var |-> "", collect |-> "", parallel |-> FALSE,
     max_iterations |-> DefaultMaxIterations,
     output |-> OutputTable[k], on_error |-> "fail"]

\* Step of type "recipe": the sub-recipe, the context mapping it passes and the
\* per-step recursion override (<<>> for none).
RecipeStep(k, name, step_context, recursion) ==
    [AgentStep(k) EXCEPT !.type = "recipe", !.prompt = Literal(""), !.recipe = name,
                         !.step_context = step_context, !.recursion = recursion]

\* foreach: "{{items}}" on a step, with as / collect / parallel.
LoopStep(step, as_var, collect, parallel) ==
    [step EXCEPT !.foreach = "items", !.as_var = as_var, !.collect = collect,
                 !.parallel = parallel]

\* The loop variable of a step: step.as_var or "item".
LoopVar(step) == IF step.as_var = "" THEN "item" ELSE step.as_var

RecursionConfigs ==
    [max_depth : 1..MaxDepthLimit, max_total_steps : 1..MaxBudget]

\* The per-step overrides of the model: none, or the corners of the limits.
Overrides ==
    {<<>>} \cup { <<c>> : c \in [max_depth : {1, MaxDepthLimit},
                                  max_total_steps : {1, MaxBudget}] }

\* The context mappings of the model: none, or arg: "{{flag}}".
StepContexts == {EmptyDict, [arg |-> Reference("flag")]}

ItemTable == <<"x", "y", "z", "u", "v">>
ItemLists == { [k \in 1..n |-> ItemTable[k]] : n \in 0..MaxItems }

\* The caller's variables (context_vars of the tool call): they are in no
\* recipe file.
CallerVars == [secret |-> "s3cret"]

ComposedRecipe(name, steps, context, recursion) ==
    [name |-> name, steps |-> steps, context |-> context, recursion |-> recursion]

\* The step lists of calls: 1..n steps, each an agent step or a recipe step that
\* calls one of `names`; every recipe step of a library has the same mapping and
\* the same override.
CallStepSeqs(n, names, step_context, recursion) ==
    UNION { { [k \in 1..len |->
                 IF kinds[k] = "" THEN AgentStep(k)
                 ELSE RecipeStep(k, kinds[k], step_context, recursion)] :
              kinds \in [1..len -> {""} \cup names] } : len \in 1..n }

\* A library of two recipe files: A, the top-level recipe, and B.
CallLibrary(steps_a, steps_b, config) ==
    [name \in RecipeNames |->
        IF name = "A" THEN ComposedRecipe("A", steps_a, [flag |-> "yes"], <<config>>)
        ELSE ComposedRecipe("B", steps_b, [own |-> "b"], <<>>)]

----------------------------------------------------------------------------
(* Composed runs: recursion state, frames and sessions (executor.py, session.py) *)

RecursionState(current_depth, total_steps, max_depth, max_total_steps, recipe_stack) ==
    [current_depth |-> current_depth, total_steps |-> total_steps,
     max_depth |-> max_depth, max_total_steps |-> max_total_steps,
     recipe_stack |-> recipe_stack]

\* The state execute_recipe makes for a top-level recipe (recursion_state is None).
TopRecursionState(r) ==
    LET config == IF r.recursion # <<>> THEN r.recursion[1] ELSE DefaultRecursion
    IN RecursionState(0, 0, config.max_depth, config.max_total_steps, <<r.name>>)

\* Variant of check_depth that lets the depth reach the limit.
check_depth_above(rs) == rs.current_depth > rs.max_depth

\* check_depth: whether it raises.
check_depth(rs) == rs.current_depth >= rs.max_depth

\* enter_recipe: the child state of a sub-recipe call.
enter_recipe(rs, recipe_name, override_config) ==
    RecursionState(rs.current_depth + 1, rs.total_steps,
                   IF override_config # <<>> THEN override_config[1].max_depth
                   ELSE rs.max_depth,
                   IF override_config # <<>> THEN override_config[1].max_total_steps
                   ELSE rs.max_total_steps,
                   Append(rs.recipe_stack, recipe_name))

\* increment_steps on a recursion state: the state after "total_steps += 1", and
\* whether the check that follows raises.
Incremented(rs) == [rs EXCEPT !.total_steps = increment_steps(@)]
OverBudget(rs) ==
    check_total_steps(rs.total_steps, [recursion |-> [max_total_steps |-> rs.max_total_steps]])

\* substitute_variables on a template: it raises for a name that is no key of
\* the context; the values the templates of the model refer to are strings, on
\* which str() changes nothing.
SubstituteFails(template, context) ==
    template.var # "" /\ template.var \notin DOMAIN context
substitute_variables(template, context) ==
    IF template.var = "" THEN template.lit ELSE context[template.var]

\* The spawner's answer to an instruction.
Respond(instruction) == "f(" \o instruction \o ")"

\* The sub-recipe context _execute_recipe_step builds from step.step_context.
MappingFails(step, context) ==
    \E key \in DOMAIN step.step_context : SubstituteFails(step.step_context[key], context)
\* Variant of SubContext that hands the parent's whole context down as well.
SubContextInherited(step, context) ==
    Merge(context, [key \in DOMAIN step.step_context |->
                       substitute_variables(step.step_context[key], context)])

SubContext(step, context) ==
    [key \in DOMAIN step.step_context |->
        substitute_variables(step.step_context[key], context)]

\* A session directory: what create_session and save_state leave in state.json
\* (of the context only its keys matter here and they are left out), and the
\* number of times the file has been written.
NewSession(r, t) ==
    [recipe_name |-> r.name, started |-> t, current_step_index |-> 0,
     completed_steps |-> <<>>, writes |-> 1, exists |-> TRUE]

\* cleanup_old_sessions over the sessions of the project.
CleanedUp(ss, t) ==
    [id \in DOMAIN ss |->
        IF ss[id].exists /\ cleanup_old_sessions(ss[id], t)
        THEN [ss[id] EXCEPT !.exists = FALSE] ELSE ss[id]]

NoLoop == [mode |-> "", items |-> <<>>, idx |-> 0, results |-> <<>>]

\* The locals of one execute_recipe call.  state: the driver's `state` dict is
\* not None; session: the id create_session returned.
Frame(r, context_vars, session_id, recursion_state, t) ==
    [recipe |-> r.name, i |-> 0,
     context |-> Merge(Merge(r.context, context_vars),
                       [recipe |-> [name |-> r.name],
                        session |-> [id |-> session_id, started |-> t]]),
     completed_steps |-> <<>>, state |-> FALSE, session |-> session_id,
     recursion_state |-> recursion_state, loop |-> NoLoop]

Top(stack) == stack[Len(stack)]
Pop(stack) == SubSeq(stack, 1, Len(stack) - 1)
SetTop(stack, f) == [stack EXCEPT ![Len(stack)] = f]

\* context["step"] = {"id": step.id, "index": i}
WithStepMeta(f, step) ==
    [f EXCEPT !.context = Put(@, "step", [id |-> step.id, index |-> f.i])]

\* The step has run: store the output, record the step, build the state dict
\* and checkpoint it.
Checkpointed(ss, f) ==
    [ss EXCEPT ![f.session] =
        [@ EXCEPT !.current_step_index = f.i, !.completed_steps = f.completed_steps,
                  !.writes = @ + 1]]
Completed(f, step, result) ==
    [f EXCEPT !.context = IF step.output # "" THEN Put(@, step.output, result) ELSE @,
              !.completed_steps = Append(@, step.id),
              !.state = TRUE, !.i = @ + 1]

\* "except Exception: if state is not None: save_state(...); raise" in every
\* execute_recipe call of the stack, innermost first.
RECURSIVE HandlerSaves(_, _)
HandlerSaves(ss, stack) ==
    IF stack = <<>> THEN ss
    ELSE HandlerSaves(IF Top(stack).state
                      THEN [ss EXCEPT ![Top(stack).session].writes = @ + 1] ELSE ss,
                      Pop(stack))

Tasks == 0..MaxItems
Driver == 0              \* the task of the top-level execute_recipe call
\* An exception: its kind, the recursion state it reports and, once a foreach
\* loop has wrapped it ("Step '..' iteration {idx} failed: ..."), the index
\* (of enumerate: from zero).
NoError == [kind |-> "", recursion_state |-> <<>>, iteration |-> <<>>]
Error(kind, rs) == [NoError EXCEPT !.kind = kind, !.recursion_state = <<rs>>]
\* Variant of IterationError that counts the iterations from one.
IterationErrorFromOne(idx, error) == [error EXCEPT !.iteration = <<idx + 1>>]

IterationError(idx, error) == [error EXCEPT !.iteration = <<idx>>]

\* A task: its status, the call stack of its driver and, for a parallel
\* iteration, the loop step, the iteration's context, its result and its error.
NoTask ==
    [status |-> "none", stack |-> <<>>, step |-> <<>>, context |-> EmptyDict,
     result |-> <<>>, error |-> NoError]
NoTasks == [t \in Tasks |-> NoTask]

NoRaised == [status |-> "none", error |-> NoError, context |-> EmptyDict]

\* The variables of the single session, which a composed run leaves alone.
single == <<recipe, created, exists, disk, now, pc, mem, outcome, spawn>>

NoRecipe ==
    [steps |-> <<>>, stages |-> <<>>, context |-> RecipeContext,
     recursion |-> DefaultRecursion]

\* finished: the parallel iterations of the current loop in the order in which
\* they finished.
NoCalls == [entries |-> 0, spawns |-> 0, finished |-> <<>>]

ComposedIdle ==
    /\ library = EmptyDict
    /\ tasks = NoTasks
    /\ sessions = <<>>
    /\ calls = NoCalls
    /\ raised = NoRaised

----------------------------------------------------------------------------
(* A step and its retries (execute_step_with_retry) *)

\* The defaults of retry_config.get(...)
DefaultMaxAttempts == 1
DefaultInitialDelay == 5
DefaultMaxDelay == 300

\* step.retry: None (<<>>) or a dict with its four keys.
RetryConfigs ==
    {<<>>} \cup
    { <<c>> : c \in [max_attempts : 1..MaxAttempts, backoff : {"exponential", "linear"},
                      initial_delay : 1..MaxDelay, max_delay : 1..MaxDelay] }

\* retry_config = step.retry or {}, read with the defaults.
RetryConfig(retry) ==
    IF retry = <<>>
    THEN [max_attempts |-> DefaultMaxAttempts, backoff |-> "exponential",
          initial_delay |-> DefaultInitialDelay, max_delay |-> DefaultMaxDelay]
    ELSE retry[1]

Min(a, b) == IF a <= b THEN a ELSE b

\* Variant of IsFinalAttempt that is one attempt late.
IsFinalAttemptLate(attempt, max_attempts) == attempt = max_attempts

\* "if attempt == max_attempts - 1": the attempt is the final one.
IsFinalAttempt(attempt, max_attempts) == attempt = max_attempts - 1

\* Variant of Wait without the cap.
WaitUncapped(delay, max_delay) == delay

\* await asyncio.sleep(min(delay, max_delay))
Wait(delay, max_delay) == Min(delay, max_delay)

\* "if backoff == 'exponential': delay *= 2"
Backoff(backoff, delay) == IF backoff = "exponential" THEN 2 * delay ELSE delay

\* The value the n-th call of execute_step returns when it succeeds (a string,
\* like every result of the model).
StepResult(n) == "result_" \o ToString(n)

\* One call of execute_step_with_retry: the step's settings, the locals of the
\* loop (attempt, delay), and what the call has done so far: log has "ok" or
\* "fail" for each call of execute_step, sleeps the waits in seconds; result
\* is what it returned.
NoRetrying ==
    [status |-> "none", on_error |-> "fail", retry |-> <<>>, attempt |-> 0, delay |-> 0,
     log |-> <<>>, sleeps |-> <<>>, result |-> <<>>]

\* state.json and one process working on it: status is "none" (no session),
\* "closed", "writing" (inside the with block of save_state) or "crashed";
\* content is the text of the file as a sequence of tokens and buffer what
\* json.dump has still to put there; saved is the state of the last save_state
\* call that returned, saving the state of the call under way or the last one;
\* loaded is what a load_state call came back with.
NoLoaded == [done |-> FALSE, error |-> "", state |-> <<>>]
NoFile ==
    [status |-> "none", content |-> <<>>, buffer |-> <<>>, saved |-> <<>>,
     saving |-> <<>>, loaded |-> NoLoaded]

\* The states the drivers checkpoint, reduced to their cursor and step list.
StateAt(n) ==
    [current_step_index |-> n, completed_steps |-> [k \in 1..n |-> StepIdTable[k]]]
SavedStates == {StateAt(n) : n \in 0..MaxSteps}

\* json.dump(state, f, indent=2, ensure_ascii=False): the text of the document.
Dump(state) ==
    <<"{", "current_step_index", ":", ToString(state.current_step_index), ",",
      "completed_steps", ":", "[">> \o state.completed_steps \o <<"]", "}">>

\* json.load: the state a complete document stands for, <<>> for a text that is
\* none (JSONDecodeError).
Parse(text) ==
    IF \E state \in SavedStates : Dump(state) = text
    THEN <<CHOOSE state \in SavedStates : Dump(state) = text>>
    ELSE <<>>

DetailIdle ==
    /\ retrying = NoRetrying
    /\ file = NoFile

----------------------------------------------------------------------------
(* Initial state: a recipe has been loaded and validated, no session yet *)

Recipes(features, gates) == FlatRecipes(features) \cup StagedRecipes(features, gates)

InitOf(recipes) ==
    /\ recipe \in recipes
    /\ created = FALSE
    /\ exists = FALSE
    /\ disk = BlankState
    /\ now = 0
    /\ pc = "idle"
    /\ mem = NoMem
    /\ outcome = NoOutcome
    /\ spawn = ""
    /\ failures = 0
    /\ ComposedIdle
    /\ DetailIdle

Init == InitOf(Recipes(MaxFeatures, MaxGates))

\* The approval gates alone: staged recipes whose steps carry no condition and
\* keep on_error = "fail".
InitGates == InitOf(StagedRecipes(0, MaxGates))

\* The step loops alone: recipes without approval gates.
InitSteps == InitOf(Recipes(MaxFeatures, 0))

----------------------------------------------------------------------------
(* execute and resume (execute_recipe up to the step loop) *)

Execute ==
    /\ pc = "idle" /\ ~created
    /\ created' = TRUE
    /\ exists' = TRUE
    /\ disk' = create_session(recipe, now)
    /\ mem' = NewLocals(recipe, now)
    /\ pc' = IF is_staged(recipe) THEN "staged" ELSE "flat"
    /\ outcome' = Running
    /\ spawn' = ""
    /\ UNCHANGED <<composed, detail, recipe, now, failures>>

\* check_variable_references: the steps whose prompt refers to a name that is
\* neither a key of recipe.context, nor reserved, nor the output of an earlier
\* step. It reads recipe.steps, which is empty for a staged recipe.
check_variable_references(r) ==
    { k \in 1..Len(r.steps) :
        /\ r.steps[k].prompt # ""
        /\ r.steps[k].prompt \notin
             DOMAIN r.context \cup ReservedNames
               \cup {r.steps[j].output : j \in 1..(k - 1)} }

\* validate_recipe(...).is_valid; the recipes of the model pass the structure
\* and dependency checks.
validate_recipe(r) == check_variable_references(r) = {}

\* The tool's execute operation on a recipe that passes validation.
ToolExecute == validate_recipe(recipe) /\ Execute

\* ... and on one that does not: "Recipe validation failed", nothing runs.
ToolReject ==
    /\ pc = "idle" /\ ~created /\ outcome = NoOutcome
    /\ ~validate_recipe(recipe)
    /\ outcome' = Failed("validation")
    /\ UNCHANGED <<composed, detail, recipe, created, exists, disk, now, pc, mem,
                   spawn, failures>>

Resume ==
    /\ pc = "idle" /\ created
    /\ spawn' = ""
    /\ IF ~exists
       THEN /\ outcome' = Failed("not_found")
            /\ UNCHANGED <<disk, mem, pc>>
       ELSE IF ~is_staged(recipe)
       THEN /\ mem' = ResumeFlatLocals(disk)
            /\ pc' = "flat"
            /\ outcome' = Running
            /\ UNCHANGED disk
       ELSE LET a == ResumeApproval(disk, now) IN
            /\ disk' = a.state
            /\ IF a.raise = ""
               THEN /\ mem' = ResumeStagedLocals(disk)
                    /\ pc' = "staged"
                    /\ outcome' = Running
               ELSE /\ UNCHANGED <<mem, pc>>
                    /\ outcome' =
                         IF a.raise = "paused_for_approval"
                         THEN [NoOutcome EXCEPT !.status = "paused_for_approval",
                                                !.stage = a.stage, !.prompt = a.prompt]
                         ELSE [Failed(a.raise) EXCEPT !.stage = a.stage]
    /\ UNCHANGED <<composed, detail, recipe, created, exists, now, failures>>

\* The process dies while the driver runs: nothing more is written.
Crash ==
    /\ pc # "idle"
    /\ pc' = "idle"
    /\ mem' = NoMem
    /\ outcome' = [NoOutcome EXCEPT !.status = "crashed"]
    /\ spawn' = ""
    /\ UNCHANGED <<composed, detail, recipe, created, exists, disk, now, failures>>

----------------------------------------------------------------------------
(* Flat driver (execute_recipe, the step loop) *)

FlatStepAt == recipe.steps[mem.i + 1]
FlatContext == WithStep(mem.context, FlatStepAt, mem.i, "")

\* except Exception: save the last state dict, if any, and re-raise.
FlatRaise(m, error) ==
    /\ disk' = IF m.state_index # 0 - 1 THEN FlatState(m, m.state_index) ELSE disk
    /\ outcome' = [Failed(error) EXCEPT
                     !.handler_saves = IF m.state_index # 0 - 1 THEN 1 ELSE 0]
    /\ pc' = "idle"
    /\ mem' = NoMem

\* The step has run (result is the spawner's value, or None under on_error =
\* continue): store the output, record the step, checkpoint.
FlatCompleted(m, step, result) ==
    LET m2 == [m EXCEPT !.context = StoreOutput(m.context, step, result),
                        !.completed_steps = Append(@, step.id),
                        !.state_index = m.i + 1,
                        !.i = m.i + 1]
    IN /\ mem' = m2
       /\ disk' = FlatState(m2, m.i + 1)
       /\ UNCHANGED <<pc, outcome>>

FlatSkipStep ==
    /\ pc = "flat" /\ mem.i < Len(recipe.steps)
    /\ ConditionResult(FlatStepAt, FlatContext) = "false"
    /\ mem' = [mem EXCEPT !.context = AppendSkipped(FlatContext, FlatStepAt.id),
                          !.i = @ + 1]
    /\ spawn' = ""
    /\ UNCHANGED <<composed, detail, recipe, created, exists, disk, now, pc, outcome, failures>>

\* The condition of the step cannot be evaluated: the error leaves the driver.
FlatConditionRaise ==
    /\ pc = "flat" /\ mem.i < Len(recipe.steps)
    /\ ConditionResult(FlatStepAt, FlatContext) = "error"
    /\ FlatRaise([mem EXCEPT !.context = FlatContext], "condition")
    /\ spawn' = ""
    /\ UNCHANGED <<composed, detail, recipe, created, exists, now>>

FlatConditionError ==
    /\ failures < MaxFailures
    /\ FlatConditionRaise
    /\ failures' = failures + 1

FlatStepOk ==
    /\ pc = "flat" /\ mem.i < Len(recipe.steps)
    /\ ConditionResult(FlatStepAt, FlatContext) = "true"
    /\ LET m1 == [mem EXCEPT !.context = FlatContext,
                             !.total_steps = increment_steps(@)]
       IN IF check_total_steps(m1.total_steps, recipe)
          THEN FlatRaise(m1, "total_steps") /\ spawn' = ""
          ELSE /\ ~PromptFails(FlatStepAt, m1.context)
               /\ FlatCompleted(m1, FlatStepAt, SpawnResult(FlatStepAt))
               /\ spawn' = FlatStepAt.id
    /\ UNCHANGED <<composed, detail, recipe, created, exists, now, failures>>

\* Variant of FlatSkipRemaining that skips the failed step only.
FlatSkipRemainingOne(m) == [m EXCEPT !.i = @ + 1]

\* "except SkipRemainingError: break": the step loop of the flat driver ends.
FlatSkipRemaining(m) == [m EXCEPT !.i = Len(recipe.steps)]

\* The spawner fails (execute_step_with_retry has used up its attempts).
FlatStepFail ==
    /\ pc = "flat" /\ mem.i < Len(recipe.steps)
    /\ ConditionResult(FlatStepAt, FlatContext) = "true"
    /\ failures < MaxFailures
    /\ LET m1 == [mem EXCEPT !.context = FlatContext,
                             !.total_steps = increment_steps(@)]
       IN /\ ~check_total_steps(m1.total_steps, recipe)
          /\ ~PromptFails(FlatStepAt, m1.context)
          /\ IF FinalFailure(FlatStepAt.on_error) = "raised" THEN FlatRaise(m1, "step")
             ELSE IF FinalFailure(FlatStepAt.on_error) = "returned"
             THEN FlatCompleted(m1, FlatStepAt, Null)
             ELSE /\ mem' = FlatSkipRemaining(m1)
                  /\ UNCHANGED <<disk, pc, outcome>>
    /\ spawn' = FlatStepAt.id
    /\ failures' = failures + 1
    /\ UNCHANGED <<composed, detail, recipe, created, exists, now>>

\* The prompt of the step refers to a variable that is not in the context:
\* execute_step raises before the spawner is called, on every attempt, and
\* execute_step_with_retry applies on_error.
FlatTemplateError ==
    /\ pc = "flat" /\ mem.i < Len(recipe.steps)
    /\ ConditionResult(FlatStepAt, FlatContext) = "true"
    /\ LET m1 == [mem EXCEPT !.context = FlatContext,
                             !.total_steps = increment_steps(@)]
       IN /\ ~check_total_steps(m1.total_steps, recipe)
          /\ PromptFails(FlatStepAt, m1.context)
          /\ IF FinalFailure(FlatStepAt.on_error) = "raised"
             THEN FlatRaise(m1, "undefined_variable")
             ELSE IF FinalFailure(FlatStepAt.on_error) = "returned"
             THEN FlatCompleted(m1, FlatStepAt, Null)
             ELSE /\ mem' = FlatSkipRemaining(m1)
                  /\ UNCHANGED <<disk, pc, outcome>>
    /\ spawn' = ""
    /\ UNCHANGED <<composed, detail, recipe, created, exists, now, failures>>

FlatFinish ==
    /\ pc = "flat" /\ mem.i >= Len(recipe.steps)
    /\ exists' = ~cleanup_old_sessions(disk, now)
    /\ disk' = IF cleanup_old_sessions(disk, now) THEN BlankState ELSE disk
    /\ outcome' = [NoOutcome EXCEPT !.status = "completed",
                                    !.context = mem.context]
    /\ pc' = "idle"
    /\ mem' = NoMem
    /\ spawn' = ""
    /\ UNCHANGED <<composed, detail, recipe, created, now, failures>>

----------------------------------------------------------------------------
(* Staged driver (_execute_staged_recipe) *)

StageAt == recipe.stages[mem.stage_idx + 1]
StagedStepAt == StageAt.steps[mem.step_idx + 1]
StagedContext ==
    WithStep(WithStage(mem.context, StageAt, mem.stage_idx),
             StagedStepAt, mem.step_idx, StageAt.name)

InStage == pc = "staged" /\ mem.stage_idx < Len(recipe.stages)
AtStagedStep == InStage /\ mem.step_idx < Len(StageAt.steps)

\* The cursor the exception handler of the staged driver saves.
StagedHandlerCursor(m) == <<m.current_stage_index, m.current_step_in_stage>>

\* except Exception: _save_staged_state(...) and re-raise.
StagedRaise(m, error) ==
    /\ disk' = StagedState(m, StagedHandlerCursor(m)[1], StagedHandlerCursor(m)[2])
    /\ outcome' = [Failed(error) EXCEPT !.handler_saves = 1]
    /\ pc' = "idle"
    /\ mem' = NoMem

StagedCompleted(m, step, result) ==
    LET m2 == [m EXCEPT !.context = StoreOutput(m.context, step, result),
                        !.completed_steps = Append(@, step.id),
                        !.step_idx = m.step_idx + 1]
    IN /\ mem' = m2
       /\ disk' = StagedState(m2, m.stage_idx, m.step_idx + 1)
       /\ UNCHANGED <<pc, outcome>>

StagedSkipStep ==
    /\ AtStagedStep
    /\ ConditionResult(StagedStepAt, StagedContext) = "false"
    /\ mem' = [mem EXCEPT !.context = AppendSkipped(StagedContext, StagedStepAt.id),
                          !.step_idx = @ + 1]
    /\ spawn' = ""
    /\ UNCHANGED <<composed, detail, recipe, created, exists, disk, now, pc, outcome, failures>>

StagedConditionError ==
    /\ AtStagedStep
    /\ ConditionResult(StagedStepAt, StagedContext) = "error"
    /\ failures < MaxFailures
    /\ StagedRaise([mem EXCEPT !.context = StagedContext], "condition")
    /\ spawn' = ""
    /\ failures' = failures + 1
    /\ UNCHANGED <<composed, detail, recipe, created, exists, now>>

StagedStepOk ==
    /\ AtStagedStep
    /\ ConditionResult(StagedStepAt, StagedContext) = "true"
    /\ LET m1 == [mem EXCEPT !.context = StagedContext,
                             !.total_steps = increment_steps(@)]
       IN IF check_total_steps(m1.total_steps, recipe)
          THEN StagedRaise(m1, "total_steps") /\ spawn' = ""
          ELSE /\ ~PromptFails(StagedStepAt, m1.context)
               /\ StagedCompleted(m1, StagedStepAt, SpawnResult(StagedStepAt))
               /\ spawn' = StagedStepAt.id
    /\ UNCHANGED <<composed, detail, recipe, created, exists, now, failures>>

\* Variant of StagedSkipRemaining that leaves the stage loop as well.
StagedSkipRemainingStages(m) == [m EXCEPT !.stage_idx = Len(recipe.stages), !.step_idx = 0]

\* "except SkipRemainingError: break": the step loop of the stage ends.
StagedSkipRemaining(m) == [m EXCEPT !.step_idx = Len(StageAt.steps)]

StagedStepFail ==
    /\ AtStagedStep
    /\ ConditionResult(StagedStepAt, StagedContext) = "true"
    /\ failures < MaxFailures
    /\ LET m1 == [mem EXCEPT !.context = StagedContext,
                             !.total_steps = increment_steps(@)]
       IN /\ ~check_total_steps(m1.total_steps, recipe)
          /\ ~PromptFails(StagedStepAt, m1.context)
          /\ IF FinalFailure(StagedStepAt.on_error) = "raised" THEN StagedRaise(m1, "step")
             ELSE IF FinalFailure(StagedStepAt.on_error) = "returned"
             THEN StagedCompleted(m1, StagedStepAt, Null)
             ELSE /\ mem' = StagedSkipRemaining(m1)
                  /\ UNCHANGED <<disk, pc, outcome>>
    /\ spawn' = StagedStepAt.id
    /\ failures' = failures + 1
    /\ UNCHANGED <<composed, detail, recipe, created, exists, now>>

StagedTemplateError ==
    /\ AtStagedStep
    /\ ConditionResult(StagedStepAt, StagedContext) = "true"
    /\ LET m1 == [mem EXCEPT !.context = StagedContext,
                             !.total_steps = increment_steps(@)]
       IN /\ ~check_total_steps(m1.total_steps, recipe)
          /\ PromptFails(StagedStepAt, m1.context)
          /\ IF FinalFailure(StagedStepAt.on_error) = "raised"
             THEN StagedRaise(m1, "undefined_variable")
             ELSE IF FinalFailure(StagedStepAt.on_error) = "returned"
             THEN StagedCompleted(m1, StagedStepAt, Null)
             ELSE /\ mem' = StagedSkipRemaining(m1)
                  /\ UNCHANGED <<disk, pc, outcome>>
    /\ spawn' = ""
    /\ UNCHANGED <<composed, detail, recipe, created, exists, now, failures>>

\* Variant of AfterStage that leaves the cursor where the step loop ended.
AfterStageInPlace(m) == <<m.stage_idx, m.step_idx>>

\* The cursor of the checkpoint that follows a stage: next stage, step 0.
AfterStage(m) == <<m.stage_idx + 1, 0>>

\* The steps of the stage are done: record the stage, then the approval gate
\* (checkpoint, set_pending_approval, raise ApprovalGatePausedError) or the
\* checkpoint that moves on to the next stage.
StageComplete ==
    /\ InStage /\ mem.step_idx >= Len(StageAt.steps)
    /\ LET m1 == [mem EXCEPT !.context = WithStage(mem.context, StageAt, mem.stage_idx),
                             !.completed_stages = Append(@, StageAt.name)]
           saved == StagedState(m1, AfterStage(mem)[1], AfterStage(mem)[2])
       IN IF StageAt.approval.required
          THEN /\ disk' = set_pending_approval(saved, StageAt.name, StageAt.approval.prompt,
                                               StageAt.approval.timeout,
                                               StageAt.approval.default, now)
               /\ outcome' = [NoOutcome EXCEPT
                                               !.status = "paused_for_approval",
                                               !.stage = StageAt.name,
                                               !.prompt = StageAt.approval.prompt]
               /\ pc' = "idle"
               /\ mem' = NoMem
          ELSE /\ disk' = saved
               /\ mem' = [m1 EXCEPT !.stage_idx = @ + 1, !.step_idx = 0]
               /\ UNCHANGED <<pc, outcome>>
    /\ spawn' = ""
    /\ UNCHANGED <<composed, detail, recipe, created, exists, now, failures>>

StagedFinish ==
    /\ pc = "staged" /\ mem.stage_idx >= Len(recipe.stages)
    /\ exists' = ~cleanup_old_sessions(disk, now)
    /\ disk' = IF cleanup_old_sessions(disk, now) THEN BlankState ELSE disk
    /\ outcome' = [NoOutcome EXCEPT !.status = "completed",
                                    !.context = mem.context]
    /\ pc' = "idle"
    /\ mem' = NoMem
    /\ spawn' = ""
    /\ UNCHANGED <<composed, detail, recipe, created, now, failures>>

----------------------------------------------------------------------------
(* approve and deny (the tool's _approve_stage and _deny_stage) *)

\* Variant of ApprovalRequestError that does not compare the stage names.
ApprovalRequestErrorAnyStage(stage_name) ==
    IF ~exists THEN "not_found"
    ELSE IF get_pending_approval(disk) = <<>> THEN "no_pending"
    ELSE ""

\* The check both operations make first: "" when the pending approval matches.
ApprovalRequestError(stage_name) ==
    IF ~exists THEN "not_found"
    ELSE IF get_pending_approval(disk) = <<>> THEN "no_pending"
    ELSE IF get_pending_approval(disk)[1].stage_name # stage_name THEN "stage_mismatch"
    ELSE ""

Approve(stage_name) ==
    /\ pc = "idle" /\ created
    /\ Len(disk.approval_history) < MaxHistory
    /\ IF ApprovalRequestError(stage_name) # ""
       THEN /\ outcome' = Failed(ApprovalRequestError(stage_name))
            /\ UNCHANGED disk
       ELSE /\ disk' = set_stage_approval_status(disk, stage_name, APPROVED,
                                                 "Approved by user")
            /\ outcome' = [NoOutcome EXCEPT !.status = "approved",
                                            !.stage = stage_name]
    /\ spawn' = ""
    /\ UNCHANGED <<composed, detail, recipe, created, exists, now, pc, mem, failures>>

Deny(stage_name) ==
    /\ pc = "idle" /\ created
    /\ Len(disk.approval_history) < MaxHistory
    /\ IF ApprovalRequestError(stage_name) # ""
       THEN /\ outcome' = Failed(ApprovalRequestError(stage_name))
            /\ UNCHANGED disk
       ELSE /\ disk' = clear_pending_approval(
                          set_stage_approval_status(disk, stage_name, DENIED,
                                                    "Denied by user"))
            /\ outcome' = [NoOutcome EXCEPT !.status = "denied",
                                            !.stage = stage_name]
    /\ spawn' = ""
    /\ UNCHANGED <<composed, detail, recipe, created, exists, now, pc, mem, failures>>

----------------------------------------------------------------------------
(* Environment *)

\* Time passes while the session is parked.
Tick ==
    /\ pc = "idle" /\ exists /\ now < MaxTime
    /\ now' = now + 1
    /\ UNCHANGED <<composed, detail, recipe, created, exists, disk, pc, mem, outcome, spawn, failures>>

\* Another recipe of the same project runs to its end and its driver calls
\* cleanup_old_sessions, which walks every session directory of the project.
CleanupByOtherRun ==
    /\ pc = "idle" /\ exists
    /\ cleanup_old_sessions(disk, now)
    /\ exists' = FALSE
    /\ disk' = BlankState
    /\ UNCHANGED <<composed, detail, recipe, created, now, pc, mem, outcome, spawn, failures>>

----------------------------------------------------------------------------
(* Composed runs: the flat driver on a call stack (execute_recipe,           *)
(* _execute_recipe_step)                                                     *)

F(t) == Top(tasks[t].stack)
StepsOf(f) == library[f.recipe].steps
StepOf(t) == StepsOf(F(t))[F(t).i + 1]

Active(t) == tasks[t].status = "running" /\ tasks[t].stack # <<>>
AtStep(t) == Active(t) /\ F(t).i < Len(StepsOf(F(t)))
AtPlainStep(t, type) == AtStep(t) /\ StepOf(t).foreach = "" /\ StepOf(t).type = type

\* An exception leaves every execute_recipe call of the stack (the task's stack
\* at the raise); the driver's caller sees it raised, with the context the
\* top-level call held, and a parallel iteration ends as failed.
RaisesFrom(t, ss, error, stack) ==
    /\ sessions' = HandlerSaves(ss, stack)
    /\ IF t = Driver
       THEN /\ tasks' = [tasks EXCEPT ![t] = [NoTask EXCEPT !.status = "done"]]
            /\ raised' = [NoRaised EXCEPT !.status = "error", !.error = error,
                                          !.context = stack[1].context]
       ELSE /\ tasks' = [tasks EXCEPT ![t] = [@ EXCEPT !.status = "failed",
                                                      !.stack = <<>>,
                                                      !.error = IterationError(t - 1, error)]]
            /\ UNCHANGED raised

Raises(t, ss, error) == RaisesFrom(t, ss, error, tasks[t].stack)

\* The tool calls execute_recipe for the top-level recipe.
ComposedExecute ==
    /\ library # EmptyDict
    /\ tasks[Driver].status = "none"
    /\ LET r == library[TopRecipe]
           session_id == Len(sessions) + 1
       IN /\ sessions' = Append(sessions, NewSession(r, now))
          /\ tasks' = [tasks EXCEPT ![Driver] =
                         [NoTask EXCEPT
                            !.status = "running",
                            !.stack = <<Frame(r, CallerVars, session_id,
                                              TopRecursionState(r), now)>>]]
    /\ calls' = [calls EXCEPT !.entries = @ + 1]
    /\ raised' = [NoRaised EXCEPT !.status = "running"]
    /\ UNCHANGED <<library, failures, single, detail>>

\* An agent step outside a loop whose spawner call returns.
AgentStepOk(t) ==
    /\ AtPlainStep(t, "agent")
    /\ LET step == StepOf(t)
           f1 == [WithStepMeta(F(t), step) EXCEPT !.recursion_state = Incremented(@)]
       IN IF OverBudget(f1.recursion_state)
          THEN /\ Raises(t, sessions, Error("total_steps", f1.recursion_state))
               /\ UNCHANGED calls
          ELSE /\ ~SubstituteFails(step.prompt, f1.context)
               /\ LET f2 == Completed(f1, step,
                                      Respond(substitute_variables(step.prompt, f1.context)))
                  IN /\ tasks' = [tasks EXCEPT ![t].stack = SetTop(@, f2)]
                     /\ sessions' = Checkpointed(sessions, f2)
               /\ calls' = [calls EXCEPT !.spawns = @ + 1]
               /\ UNCHANGED raised
    /\ UNCHANGED <<library, failures, single, detail>>

\* An agent step outside a loop whose spawner call fails on its last attempt:
\* execute_step_with_retry applies on_error.
AgentStepFail(t) ==
    /\ AtPlainStep(t, "agent")
    /\ failures < MaxFailures
    /\ LET step == StepOf(t)
           f1 == [WithStepMeta(F(t), step) EXCEPT !.recursion_state = Incremented(@)]
       IN /\ ~OverBudget(f1.recursion_state)
          /\ ~SubstituteFails(step.prompt, f1.context)
          /\ IF step.on_error = "fail"
             THEN Raises(t, sessions, Error("step", f1.recursion_state))
             ELSE IF step.on_error = "continue"
             THEN /\ tasks' = [tasks EXCEPT ![t].stack = SetTop(@, Completed(f1, step, Null))]
                  /\ sessions' = Checkpointed(sessions, Completed(f1, step, Null))
                  /\ UNCHANGED raised
             ELSE /\ tasks' = [tasks EXCEPT ![t].stack =
                                 SetTop(@, [f1 EXCEPT !.i = Len(StepsOf(f1))])]
                  /\ UNCHANGED <<sessions, raised>>
    /\ calls' = [calls EXCEPT !.spawns = @ + 1]
    /\ failures' = failures + 1
    /\ UNCHANGED <<library, single, detail>>

\* A recipe step outside a loop: _execute_recipe_step builds the sub-context,
\* derives the child state and calls execute_recipe, which checks the depth,
\* creates a session and starts on the sub-recipe's steps.
EnterRecipe(t) ==
    /\ AtPlainStep(t, "recipe")
    /\ LET step == StepOf(t)
           f1 == WithStepMeta(F(t), step)
           sub_recipe == library[step.recipe]
           child_state == enter_recipe(f1.recursion_state, sub_recipe.name, step.recursion)
           session_id == Len(sessions) + 1
       IN IF MappingFails(step, f1.context)
          THEN /\ Raises(t, sessions, Error("undefined_variable", f1.recursion_state))
               /\ UNCHANGED calls
          ELSE /\ calls' = [calls EXCEPT !.entries = @ + 1]
               /\ IF check_depth(child_state)
                  THEN Raises(t, sessions, Error("depth", child_state))
                  ELSE /\ sessions' = Append(sessions, NewSession(sub_recipe, now))
                       /\ tasks' = [tasks EXCEPT ![t].stack =
                                      Append(SetTop(@, f1),
                                             Frame(sub_recipe, SubContext(step, f1.context),
                                                   session_id, child_state, now))]
                       /\ UNCHANGED raised
    /\ UNCHANGED <<library, failures, single, detail>>

\* Variant of ReturnRecipe that leaves the parent's step count as it was.
ReturnRecipeNoPropagation(t) ==
    /\ Active(t) /\ Len(tasks[t].stack) > 1
    /\ F(t).i >= Len(StepsOf(F(t)))
    /\ LET child == F(t)
           parent == Top(Pop(tasks[t].stack))
           step == StepsOf(parent)[parent.i + 1]
           done == Completed(parent, step, child.context)
       IN /\ tasks' = [tasks EXCEPT ![t].stack = SetTop(Pop(@), done)]
          /\ sessions' = Checkpointed(CleanedUp(sessions, now), done)
    /\ UNCHANGED <<library, calls, raised, failures, single, detail>>

\* The sub-recipe has run its steps: its execute_recipe cleans up and returns
\* its context; the recipe step propagates the step count, stores the result
\* and the parent checkpoints.
ReturnRecipe(t) ==
    /\ Active(t) /\ Len(tasks[t].stack) > 1
    /\ F(t).i >= Len(StepsOf(F(t)))
    /\ LET child == F(t)
           parent == Top(Pop(tasks[t].stack))
           step == StepsOf(parent)[parent.i + 1]
           propagated == [parent EXCEPT !.recursion_state.total_steps =
                                           child.recursion_state.total_steps]
           done == Completed(propagated, step, child.context)
       IN /\ tasks' = [tasks EXCEPT ![t].stack = SetTop(Pop(@), done)]
          /\ sessions' = Checkpointed(CleanedUp(sessions, now), done)
    /\ UNCHANGED <<library, calls, raised, failures, single, detail>>

\* The top-level recipe has run its steps: clean up and return the context.
ComposedFinish ==
    /\ Active(Driver) /\ Len(tasks[Driver].stack) = 1
    /\ F(Driver).i >= Len(StepsOf(F(Driver)))
    /\ sessions' = CleanedUp(sessions, now)
    /\ raised' = [NoRaised EXCEPT !.status = "completed", !.context = F(Driver).context]
    /\ tasks' = [tasks EXCEPT ![Driver] = [NoTask EXCEPT !.status = "done"]]
    /\ UNCHANGED <<library, calls, failures, single, detail>>

----------------------------------------------------------------------------
(* Composed runs: foreach loops (_execute_loop, _execute_loop_sequential,     *)
(* _execute_loop_parallel)                                                   *)

\* The iterations of the parallel loop the driver's frame is in.
Iterations == 1..Len(F(Driver).loop.items)

\* Variant of Skipped that starts a new list each time.
SkippedAlone(context, id) == Put(context, "_skipped_steps", <<id>>)

\* skipped_steps = context.get("_skipped_steps", []); append; store.
Skipped(context, id) ==
    Put(context, "_skipped_steps",
        Append(IF "_skipped_steps" \in DOMAIN context THEN context["_skipped_steps"]
               ELSE <<>>, id))

\* "Store results" at the end of _execute_loop.
StoreLoopResults(context, step, results) ==
    IF step.collect # "" THEN Put(context, step.collect, results)
    ELSE IF step.output # "" /\ results # <<>>
    THEN Put(context, step.output, results[Len(results)])
    ELSE context

\* The driver after _execute_loop has returned: record the step, build the
\* state dict (checkpointed by the action) and continue with the next step.
LoopCompleted(f, step) ==
    [f EXCEPT !.completed_steps = Append(@, step.id), !.state = TRUE,
              !.i = @ + 1, !.loop = NoLoop]

\* Variant of IterContext in which the iterations share one binding, the last.
IterContextShared(context, loop_var, items, k) ==
    Put(context, loop_var, items[Len(items)])

\* iter_context = {**context, loop_var: item} of iteration k.
IterContext(context, loop_var, items, k) == Put(context, loop_var, items[k])

\* Variant of GatherResults that lists the results as the iterations finished.
GatherResultsAsFinished(ts, finished) ==
    [k \in 1..Len(finished) |-> ts[finished[k]].result[1]]

\* What asyncio.gather returns: the results of the tasks in the order of the
\* tasks (finished: the order in which they finished).
GatherResults(ts, finished) ==
    [k \in 1..Len(finished) |-> ts[k].result[1]]

\* The driver reaches a foreach step: _execute_loop up to the first iteration.
\* An empty list skips the step; a parallel loop of agent steps is checked
\* against the step budget and counted at once; then the tasks are created.
LoopBegin(t) ==
    /\ AtStep(t) /\ StepOf(t).foreach # "" /\ F(t).loop.mode = ""
    /\ LET step == StepOf(t)
           f1 == WithStepMeta(F(t), step)
           rs == f1.recursion_state
       IN IF step.foreach \notin DOMAIN f1.context
          THEN Raises(t, sessions, Error("undefined_variable", rs))
          ELSE
            LET items == f1.context[step.foreach] IN
            IF items = <<>>
            THEN LET f2 == LoopCompleted([f1 EXCEPT !.context = Skipped(@, step.id)], step)
                 IN /\ tasks' = [tasks EXCEPT ![t].stack = SetTop(@, f2)]
                    /\ sessions' = Checkpointed(sessions, f2)
                    /\ UNCHANGED raised
            ELSE IF Len(items) > step.max_iterations
            THEN Raises(t, sessions, Error("max_iterations", rs))
            ELSE IF ~step.parallel
            THEN /\ tasks' = [tasks EXCEPT ![t].stack =
                                SetTop(@, [f1 EXCEPT !.loop = [mode |-> "sequential",
                                                               items |-> items, idx |-> 0,
                                                               results |-> <<>>]])]
                 /\ UNCHANGED <<sessions, raised>>
            ELSE IF step.type = "agent"
                    /\ rs.total_steps + Len(items) > rs.max_total_steps
            THEN Raises(t, sessions,
                        Error("total_steps", [rs EXCEPT !.total_steps = @ + Len(items)]))
            ELSE LET f2 == [f1 EXCEPT
                              !.recursion_state.total_steps =
                                  IF step.type = "agent" THEN @ + Len(items) ELSE @,
                              !.loop = [mode |-> "parallel", items |-> items,
                                        idx |-> 0, results |-> <<>>]]
                 IN /\ tasks' =
                         [k \in Tasks |->
                            IF k = t THEN [tasks[k] EXCEPT !.stack = SetTop(@, f2)]
                            ELSE IF k \in 1..Len(items)
                            THEN [NoTask EXCEPT
                                    !.status = "new", !.step = <<step>>,
                                    !.context = IterContext(f1.context, LoopVar(step),
                                                            items, k)]
                            ELSE tasks[k]]
                    /\ UNCHANGED <<sessions, raised>>
    /\ calls' = [calls EXCEPT !.finished = <<>>]
    /\ UNCHANGED <<library, failures, single, detail>>

\* Variant of SeqFinally that leaves the loop variable in the context.
SeqFinallyKeeps(f, step) == f

\* "finally: if loop_var in context: del context[loop_var]".
SeqFinally(f, step) == [f EXCEPT !.context = Del(@, LoopVar(step))]

\* The iteration has its result: count it, drop the loop variable, and after
\* the last item store the results, record the step and checkpoint.
SeqAdvance(t, f1, step, result) ==
    LET f2 == [SeqFinally(f1, step) EXCEPT
                         !.loop.idx = @ + 1,
                         !.loop.results = Append(@, result)]
        f3 == LoopCompleted([f2 EXCEPT !.context =
                                StoreLoopResults(@, step, f2.loop.results)], step)
    IN IF f2.loop.idx < Len(f2.loop.items)
       THEN /\ tasks' = [tasks EXCEPT ![t].stack = SetTop(@, f2)]
            /\ UNCHANGED sessions
       ELSE /\ tasks' = [tasks EXCEPT ![t].stack = SetTop(@, f3)]
            /\ sessions' = Checkpointed(sessions, f3)

InSequentialLoop(t) == Active(t) /\ F(t).loop.mode = "sequential"

\* The frame at the start of the next sequential iteration: the loop variable
\* is bound and the step counted.
SeqBound(t) ==
    [F(t) EXCEPT !.context = Put(@, LoopVar(StepOf(t)), F(t).loop.items[F(t).loop.idx + 1]),
                 !.recursion_state = Incremented(@)]

\* An exception inside iteration idx: the finally clause drops the loop
\* variable, the loop wraps the exception with the index and it leaves
\* execute_recipe.
SeqRaise(t, error) ==
    RaisesFrom(t, sessions, IterationError(F(t).loop.idx, error),
               SetTop(tasks[t].stack, SeqFinally(SeqBound(t), StepOf(t))))

\* An iteration of a sequential loop of agent steps whose spawner call returns.
SeqIterOk(t) ==
    /\ InSequentialLoop(t)
    /\ IF OverBudget(SeqBound(t).recursion_state)
       THEN /\ SeqRaise(t, Error("total_steps", SeqBound(t).recursion_state))
            /\ UNCHANGED calls
       ELSE /\ ~SubstituteFails(StepOf(t).prompt, SeqBound(t).context)
            /\ SeqAdvance(t, SeqBound(t), StepOf(t),
                          Respond(substitute_variables(StepOf(t).prompt, SeqBound(t).context)))
            /\ calls' = [calls EXCEPT !.spawns = @ + 1]
            /\ UNCHANGED raised
    /\ UNCHANGED <<library, failures, single, detail>>

\* An iteration of a sequential loop whose spawner call fails on its last attempt.
SeqIterFail(t) ==
    /\ InSequentialLoop(t)
    /\ failures < MaxFailures
    /\ ~OverBudget(SeqBound(t).recursion_state)
    /\ ~SubstituteFails(StepOf(t).prompt, SeqBound(t).context)
    /\ IF StepOf(t).on_error = "fail"
       THEN SeqRaise(t, Error("step", SeqBound(t).recursion_state))
       ELSE IF StepOf(t).on_error = "continue"
       THEN SeqAdvance(t, SeqBound(t), StepOf(t), Null) /\ UNCHANGED raised
       ELSE /\ tasks' = [tasks EXCEPT ![t].stack =
                           SetTop(@, [SeqFinally(SeqBound(t), StepOf(t)) EXCEPT
                                        !.i = Len(StepsOf(F(t))),
                                        !.loop = NoLoop])]
            /\ UNCHANGED <<sessions, raised>>
    /\ calls' = [calls EXCEPT !.spawns = @ + 1]
    /\ failures' = failures + 1
    /\ UNCHANGED <<library, single, detail>>

\* The first slice of a parallel iteration, in the order of the tasks: an agent
\* step calls the spawner and waits; a recipe step enters its sub-recipe (the
\* child state derives from the recursion state of the loop's frame).
IterStart(t) ==
    /\ t # Driver /\ tasks[t].status = "new"
    /\ \A k \in 1..(t - 1) : tasks[k].status # "new"
    /\ LET step == tasks[t].step[1]
           iter_context == tasks[t].context
           owner == F(Driver)
           sub_recipe == library[step.recipe]
           child_state == enter_recipe(owner.recursion_state, sub_recipe.name,
                                       step.recursion)
           session_id == Len(sessions) + 1
       IN IF step.type = "agent"
          THEN /\ ~SubstituteFails(step.prompt, iter_context)
               /\ tasks' = [tasks EXCEPT ![t].status = "waiting"]
               /\ calls' = [calls EXCEPT !.spawns = @ + 1]
               /\ UNCHANGED <<sessions, raised>>
          ELSE IF MappingFails(step, iter_context)
          THEN /\ Raises(t, sessions, Error("undefined_variable", owner.recursion_state))
               /\ UNCHANGED calls
          ELSE /\ calls' = [calls EXCEPT !.entries = @ + 1]
               /\ IF check_depth(child_state)
                  THEN Raises(t, sessions, Error("depth", child_state))
                  ELSE /\ sessions' = Append(sessions, NewSession(sub_recipe, now))
                       /\ tasks' = [tasks EXCEPT ![t] =
                                      [@ EXCEPT
                                         !.status = "running",
                                         !.stack = <<Frame(sub_recipe,
                                                           SubContext(step, iter_context),
                                                           session_id, child_state, now)>>]]
                       /\ UNCHANGED raised
    /\ UNCHANGED <<library, failures, single, detail>>

\* The spawner call of a parallel agent iteration returns.
IterReturn(t) ==
    /\ t # Driver /\ tasks[t].status = "waiting"
    /\ tasks' = [tasks EXCEPT
                   ![t].status = "done",
                   ![t].result = <<Respond(substitute_variables(tasks[t].step[1].prompt,
                                                                tasks[t].context))>>]
    /\ calls' = [calls EXCEPT !.finished = Append(@, t)]
    /\ UNCHANGED <<library, sessions, raised, failures, single, detail>>

\* The spawner call of a parallel agent iteration fails on its last attempt.
IterFail(t) ==
    /\ t # Driver /\ tasks[t].status = "waiting"
    /\ failures < MaxFailures
    /\ IF tasks[t].step[1].on_error = "continue"
       THEN /\ tasks' = [tasks EXCEPT ![t].status = "done", ![t].result = <<Null>>]
            /\ calls' = [calls EXCEPT !.finished = Append(@, t)]
       ELSE /\ tasks' = [tasks EXCEPT
                           ![t].status = "failed",
                           ![t].error =
                               IF tasks[t].step[1].on_error = "fail"
                               THEN IterationError(t - 1, [NoError EXCEPT !.kind = "step"])
                               ELSE [NoError EXCEPT !.kind = "skip_remaining"]]
            /\ UNCHANGED calls
    /\ failures' = failures + 1
    /\ UNCHANGED <<library, sessions, raised, single, detail>>

\* The sub-recipe of a parallel recipe iteration has run its steps: it returns
\* its context and the recipe step writes the child's step count into the
\* recursion state of the loop's frame.
IterRecipeReturn(t) ==
    /\ t # Driver /\ Active(t) /\ Len(tasks[t].stack) = 1
    /\ F(t).i >= Len(StepsOf(F(t)))
    /\ tasks' =
         [k \in Tasks |->
            IF k = t
            THEN [tasks[k] EXCEPT !.status = "done", !.stack = <<>>,
                                  !.result = <<F(t).context>>]
            ELSE IF k = Driver /\ Active(Driver)
            THEN [tasks[k] EXCEPT !.stack[1].recursion_state.total_steps =
                                      F(t).recursion_state.total_steps]
            ELSE tasks[k]]
    /\ sessions' = CleanedUp(sessions, now)
    /\ calls' = [calls EXCEPT !.finished = Append(@, t)]
    /\ UNCHANGED <<library, raised, failures, single, detail>>

InParallelLoop == Active(Driver) /\ F(Driver).loop.mode = "parallel"

\* gather hands the first exception to the waiting loop, once every task has
\* had its first slice; the other tasks are left as they are.  A
\* SkipRemainingError makes the driver break out of its step loop, any other
\* exception leaves execute_recipe.
GatherRaise ==
    /\ InParallelLoop
    /\ \A k \in Iterations : tasks[k].status # "new"
    /\ \E k \in Iterations :
          /\ tasks[k].status = "failed"
          /\ IF tasks[k].error.kind = "skip_remaining"
             THEN /\ tasks' = [tasks EXCEPT ![Driver].stack =
                                 SetTop(@, [F(Driver) EXCEPT
                                              !.i = Len(StepsOf(F(Driver))),
                                              !.loop = NoLoop])]
                  /\ UNCHANGED <<sessions, raised>>
             ELSE Raises(Driver, sessions, tasks[k].error)
    /\ UNCHANGED <<library, calls, failures, single, detail>>

\* Every task is done: gather returns the results, the loop stores them and
\* the driver records the step and checkpoints.
GatherReturn ==
    /\ InParallelLoop
    /\ \A k \in Iterations : tasks[k].status = "done"
    /\ LET step == StepOf(Driver)
           results == GatherResults(tasks, calls.finished)
           f3 == LoopCompleted([F(Driver) EXCEPT !.context =
                                   StoreLoopResults(@, step, results)], step)
       IN /\ tasks' = [k \in Tasks |->
                         IF k = Driver THEN [tasks[k] EXCEPT !.stack = SetTop(@, f3)]
                         ELSE NoTask]
          /\ sessions' = Checkpointed(sessions, f3)
    /\ UNCHANGED <<library, calls, raised, failures, single, detail>>

----------------------------------------------------------------------------
(* A step and its retries: the attempts (execute_step_with_retry) *)

\* The variables a call followed on its own leaves alone.
others == <<composed, single, failures>>

RetryCall ==
    /\ retrying.status = "none"
    /\ \E on_error \in OnErrors, retry \in RetryConfigs :
          retrying' = [NoRetrying EXCEPT !.status = "running", !.on_error = on_error,
                                         !.retry = retry,
                                         !.delay = RetryConfig(retry).initial_delay]
    /\ UNCHANGED <<others, file>>

InAttempt ==
    /\ retrying.status = "running"
    /\ retrying.attempt < RetryConfig(retrying.retry).max_attempts

\* execute_step returns: the result is returned at once.
AttemptOk ==
    /\ InAttempt
    /\ retrying' = [retrying EXCEPT !.log = Append(@, "ok"), !.status = "returned",
                                    !.result = <<StepResult(Len(retrying.log) + 1)>>]
    /\ UNCHANGED <<others, file>>

\* execute_step raises: on the final attempt on_error decides, before it the
\* call waits, adjusts the delay and tries again.
AttemptFail ==
    /\ InAttempt
    /\ LET config == RetryConfig(retrying.retry)
           r == [retrying EXCEPT !.log = Append(@, "fail")]
       IN retrying' =
            IF IsFinalAttempt(retrying.attempt, config.max_attempts)
            THEN [r EXCEPT !.status = FinalFailure(retrying.on_error),
                           !.result = IF FinalFailure(retrying.on_error) = "returned"
                                      THEN <<Null>> ELSE <<>>]
            ELSE [r EXCEPT !.sleeps = Append(@, Wait(retrying.delay, config.max_delay)),
                           !.delay = Backoff(config.backoff, retrying.delay),
                           !.attempt = @ + 1]
    /\ UNCHANGED <<others, file>>

----------------------------------------------------------------------------

----------------------------------------------------------------------------
(* save_state and load_state on state.json (session.py) *)

\* open(state_file, "w"): the file is truncated, then json.dump starts.
SaveStateOpen(state) ==
    /\ file.status = "closed"
    /\ file' = [file EXCEPT !.status = "writing", !.content = <<>>,
                            !.buffer = Dump(state), !.saving = <<state>>]
    /\ UNCHANGED <<others, retrying>>

\* Some of the text reaches the file.
SaveStateWrite(k) ==
    /\ file.status = "writing" /\ k <= Len(file.buffer)
    /\ file' = [file EXCEPT !.content = @ \o SubSeq(file.buffer, 1, k),
                            !.buffer = SubSeq(@, k + 1, Len(@))]
    /\ UNCHANGED <<others, retrying>>

\* The with block ends: the rest of the text is flushed, the file is closed and
\* save_state returns.
SaveStateClose ==
    /\ file.status = "writing"
    /\ file' = [file EXCEPT !.status = "closed", !.content = @ \o file.buffer,
                            !.buffer = <<>>, !.saved = file.saving]
    /\ UNCHANGED <<others, retrying>>

\* The process dies, during a save or between saves: what has not reached the
\* file is lost.
ProcessDies ==
    /\ file.status \in {"writing", "closed"}
    /\ file' = [file EXCEPT !.status = "crashed", !.buffer = <<>>]
    /\ UNCHANGED <<others, retrying>>

\* load_state by the next process.
LoadState ==
    /\ file.status = "crashed" /\ ~file.loaded.done
    /\ file' = [file EXCEPT !.loaded =
                   IF Parse(file.content) = <<>>
                   THEN [done |-> TRUE, error |-> "JSONDecodeError", state |-> <<>>]
                   ELSE [done |-> TRUE, error |-> "", state |-> Parse(file.content)]]
    /\ UNCHANGED <<others, retrying>>

Next ==
    \/ Execute
    \/ Resume
    \/ Crash
    \/ FlatSkipStep
    \/ FlatConditionError
    \/ FlatStepOk
    \/ FlatStepFail
    \/ FlatFinish
    \/ StagedSkipStep
    \/ StagedConditionError
    \/ StagedStepOk
    \/ StagedStepFail
    \/ StageComplete
    \/ StagedFinish
    \/ \E stage_name \in StageNameInputs : Approve(stage_name)
    \/ \E stage_name \in StageNameInputs : Deny(stage_name)
    \/ Tick
    \/ CleanupByOtherRun

Spec == Init /\ [][Next]_vars

NextGates ==
    \/ Execute
    \/ Resume
    \/ StagedStepOk
    \/ StagedStepFail
    \/ StageComplete
    \/ StagedFinish
    \/ \E stage_name \in StageNameInputs : Approve(stage_name)
    \/ \E stage_name \in StageNameInputs : Deny(stage_name)
    \/ Tick
    \/ CleanupByOtherRun

SpecGates == InitGates /\ [][NextGates]_vars

NextSteps ==
    \/ Execute
    \/ Resume
    \/ Crash
    \/ FlatSkipStep
    \/ FlatConditionError
    \/ FlatStepOk
    \/ FlatStepFail
    \/ FlatFinish
    \/ StagedSkipStep
    \/ StagedConditionError
    \/ StagedStepOk
    \/ StagedStepFail
    \/ StageComplete
    \/ StagedFinish

SpecSteps == InitSteps /\ [][NextSteps]_vars

\* A composed run: the session of the single-recipe part stays untouched.
InitComposed ==
    /\ tasks = NoTasks
    /\ sessions = <<>>
    /\ calls = NoCalls
    /\ raised = NoRaised
    /\ recipe = NoRecipe
    /\ created = FALSE
    /\ exists = FALSE
    /\ disk = BlankState
    /\ now = 0
    /\ pc = "idle"
    /\ mem = NoMem
    /\ outcome = NoOutcome
    /\ spawn = ""
    /\ failures = 0
    /\ DetailIdle

\* The libraries of calls: A may call A and B, B may call B.
InitCalls ==
    /\ \E p \in StepContexts \X Overrides, config \in RecursionConfigs :
          \E steps_a \in CallStepSeqs(MaxCallSteps, {"A", "B"}, p[1], p[2]),
             steps_b \in CallStepSeqs(MaxCallSteps, {"B"}, p[1], p[2]) :
             library = CallLibrary(steps_a, steps_b, config)
    /\ InitComposed

NextCalls ==
    \/ ComposedExecute
    \/ AgentStepOk(Driver)
    \/ AgentStepFail(Driver)
    \/ EnterRecipe(Driver)
    \/ ReturnRecipe(Driver)
    \/ ComposedFinish

SpecCalls == InitCalls /\ [][NextCalls]_vars

\* The loop steps of a library share one style.  A loop step of type agent
\* prompts with the loop variable; one of type recipe is parallel, calls B and
\* passes the loop variable as arg.  collect names nothing, a list of its own
\* or the loop variable itself.
LoopStyles ==
    { s \in [parallel : BOOLEAN, type : {"agent", "recipe"},
             collect : {"", "all", "item"}, on_error : OnErrors] :
        s.type = "recipe" => (s.parallel /\ s.on_error = "fail") }

StyledLoopStep(k, style) ==
    LoopStep(IF style.type = "agent"
             THEN [AgentStep(k) EXCEPT !.prompt = Reference("item"),
                                       !.on_error = style.on_error]
             ELSE RecipeStep(k, "B", [arg |-> Reference("item")], <<>>),
             "", style.collect, style.parallel)

\* The step lists of loops: 1..n steps, each a plain agent step or a loop step.
LoopStepSeqs(n, style) ==
    UNION { { [k \in 1..len |-> IF loops[k] THEN StyledLoopStep(k, style)
                                ELSE AgentStep(k)] :
              loops \in [1..len -> BOOLEAN] } : len \in 1..n }

AgentStepSeqs(n) == { [k \in 1..len |-> AgentStep(k)] : len \in 1..n }

\* outer: the context of A has a variable of its own named like the loop variable.
LoopLibrary(steps_a, steps_b, config, items, outer) ==
    [name \in RecipeNames |->
        IF name = "A"
        THEN ComposedRecipe("A", steps_a,
                            IF outer THEN [flag |-> "yes", items |-> items, item |-> "outer"]
                            ELSE [flag |-> "yes", items |-> items],
                            <<config>>)
        ELSE ComposedRecipe("B", steps_b, [own |-> "b"], <<>>)]

\* The libraries of loops: A loops over its items, B is a list of agent steps;
\* where the loops are sequential (they bind the loop variable in the context
\* of A itself), that context may have a variable of the same name.
InitLoops ==
    /\ \E style \in LoopStyles, config \in RecursionConfigs, items \in ItemLists :
          \E steps_a \in LoopStepSeqs(MaxCallSteps, style),
             steps_b \in AgentStepSeqs(MaxCallSteps),
             outer \in IF style.parallel THEN {FALSE} ELSE BOOLEAN :
             library = LoopLibrary(steps_a, steps_b, config, items, outer)
    /\ InitComposed

NextLoops ==
    \/ ComposedExecute
    \/ \E t \in Tasks : AgentStepOk(t)
    \/ \E t \in Tasks : AgentStepFail(t)
    \/ LoopBegin(Driver)
    \/ SeqIterOk(Driver)
    \/ SeqIterFail(Driver)
    \/ \E t \in Tasks : IterStart(t)
    \/ \E t \in Tasks : IterReturn(t)
    \/ \E t \in Tasks : IterFail(t)
    \/ \E t \in Tasks : IterRecipeReturn(t)
    \/ GatherRaise
    \/ GatherReturn
    \/ ComposedFinish

SpecLoops == InitLoops /\ [][NextLoops]_vars

\* One call of execute_step_with_retry, for every on_error and retry setting.
InitRetry ==
    /\ library = EmptyDict
    /\ InitComposed

NextRetry ==
    \/ RetryCall
    \/ AttemptOk
    \/ AttemptFail

SpecRetry == InitRetry /\ [][NextRetry]_vars

\* A session as create_session leaves it (its first save_state has returned),
\* the saves that follow and a crash.
InitStore ==
    /\ library = EmptyDict
    /\ tasks = NoTasks /\ sessions = <<>> /\ calls = NoCalls /\ raised = NoRaised
    /\ recipe = NoRecipe
    /\ created = FALSE /\ exists = FALSE /\ disk = BlankState /\ now = 0
    /\ pc = "idle" /\ mem = NoMem /\ outcome = NoOutcome /\ spawn = ""
    /\ failures = 0
    /\ retrying = NoRetrying
    /\ file = [NoFile EXCEPT !.status = "closed", !.content = Dump(StateAt(0)),
                             !.saved = <<StateAt(0)>>, !.saving = <<StateAt(0)>>]

NextStore ==
    \/ \E state \in SavedStates : SaveStateOpen(state)
    \/ \E k \in 1..Len(file.buffer) : SaveStateWrite(k)
    \/ SaveStateClose
    \/ ProcessDies
    \/ LoadState

SpecStore == InitStore /\ [][NextStore]_vars

\* The tool's execute operation on recipes whose prompts refer to variables:
\* validation, then one run of the flat or staged driver.
Templates == {""} \cup VarNames

InitTemplates ==
    \E p \in {q \in (1..MaxCallSteps) \X (1..MaxCallSteps) : q[2] <= q[1]} :
    \E ss \in StepSeqs(p[1], MaxFeatures), prompts \in [1..p[1] -> Templates],
       split \in Splits(p[1], p[2]), staged \in BOOLEAN :
        /\ staged \/ p[2] = 1
        /\ InitOf({ [steps |-> IF staged THEN <<>> ELSE WithPrompts(ss, prompts),
                     stages |-> IF staged
                                THEN StagesOf(WithPrompts(ss, prompts), split,
                                              [k \in 1..p[2] |-> NoApproval])
                                ELSE <<>>,
                     context |-> RecipeContext, recursion |-> DefaultRecursion] })

NextTemplates ==
    \/ ToolExecute
    \/ ToolReject
    \/ FlatSkipStep
    \/ FlatConditionError
    \/ FlatStepOk
    \/ FlatStepFail
    \/ FlatTemplateError
    \/ FlatFinish
    \/ StagedSkipStep
    \/ StagedConditionError
    \/ StagedStepOk
    \/ StagedStepFail
    \/ StagedTemplateError
    \/ StageComplete
    \/ StagedFinish

SpecTemplates == InitTemplates /\ [][NextTemplates]_vars

\* One execute_recipe call of a staged recipe, with conditions, on_error
\* settings and approval gates together, up to its pause, end or failure.
\* The gates of these recipes all carry the default timeout and default
\* action: the run ends at the pause, before either matters.
SkipApprovalConfigs == {NoApproval, [required |-> TRUE, timeout |-> 0, default |-> "deny"]}

SkipRecipes ==
    UNION { { [steps |-> <<>>, stages |-> StagesOf(ss, split, approvals),
                context |-> RecipeContext, recursion |-> DefaultRecursion] :
              ss \in StepSeqs(p[1], MaxFeatures), split \in Splits(p[1], p[2]),
              approvals \in { a \in [1..p[2] -> SkipApprovalConfigs] :
                                Cardinality({k \in 1..p[2] : a[k].required}) <= MaxGates } } :
            p \in {q \in (1..MaxSteps) \X (1..MaxStages) : q[2] <= q[1]} }

InitSkips == InitOf(SkipRecipes)

NextSkips ==
    \/ Execute
    \/ StagedSkipStep
    \/ StagedConditionError
    \/ StagedStepOk
    \/ StagedStepFail
    \/ StageComplete
    \/ StagedFinish

SpecSkips == InitSkips /\ [][NextSkips]_vars



----------------------------------------------------------------------------
(* Checkpoints and resume *)

\* Every step of the recipe keeps on_error = "fail": a run that completes has
\* then got a result from the spawner for every step it ran.
AllFail(r) == \A k \in 1..Len(get_all_steps(r)) : get_all_steps(r)[k].on_error = "fail"

\* The steps recorded in completed_steps whose output is the spawner's result.
CompletedOk(m) ==
    { id \in Range(m.completed_steps) :
        \E k \in 1..MaxSteps : StepIdTable[k] = id /\ m.context.vars[OutputTable[k]] = id }

\* C1: a step that completed successfully and is recorded in completed_steps is
\* never passed to the spawner again: whenever the driver calls the spawner, the
\* step it passes is not among the completed steps it holds (those of the state
\* file it resumed from and those it completed since).
C1_NoReexecution ==
    [][(pc # "idle" /\ spawn' # "") => spawn' \notin CompletedOk(mem)]_vars

\* The final context of a flat recipe that runs from step i to its end without
\* interruption, every spawner call returning its result.
RECURSIVE FlatRun(_, _, _)
FlatRun(r, i, context) ==
    IF i >= Len(r.steps) THEN context
    ELSE LET step == r.steps[i + 1]
             c == WithStep(context, step, i, "")
             res == ConditionResult(step, c)
         IN IF res = "false" THEN FlatRun(r, i + 1, AppendSkipped(c, step.id))
            ELSE IF res = "true"
            THEN FlatRun(r, i + 1, StoreOutput(c, step, SpawnResult(step)))
            ELSE c

\* C2: when a flat recipe completes, after whatever interruptions and resumes,
\* the context it returns is the context of the uninterrupted run with the same
\* spawner results.
C2_IdempotentResume ==
    (pc = "idle" /\ outcome.status = "completed" /\ ~is_staged(recipe) /\ AllFail(recipe))
        => outcome.context = FlatRun(recipe, 0, InitialContext(recipe))

\* C3: while a driver runs, the completed_steps list of the state file is a
\* prefix of the driver's own completed_steps list.
C3_DiskPrefix ==
    pc # "idle" => IsPrefix(disk.completed_steps, mem.completed_steps)

\* A resumed flat run has completed a second step and checkpointed it.
C3_Witness ==
    /\ pc = "flat" /\ failures = 1
    /\ Len(mem.completed_steps) = 2
    /\ disk.completed_steps = mem.completed_steps

\* The position, in get_all_steps, at which a resume from this state file starts.
ResumePosition(state, r) ==
    IF is_staged(r)
    THEN SumSeq([x \in 1..state.current_stage_index |-> Len(r.stages[x].steps)])
           + state.current_step_in_stage
    ELSE state.current_step_index

\* The position right after the last step recorded in completed_steps.
PositionAfterLastCompleted(state, r) ==
    IF state.completed_steps = <<>> THEN 0
    ELSE CHOOSE k \in 1..Len(get_all_steps(r)) :
            get_all_steps(r)[k].id = state.completed_steps[Len(state.completed_steps)]

\* C4: after a step has raised (the spawner failed under on_error = "fail"), the
\* state file left behind makes a resume start at the step right after the last
\* completed step.
C4_ResumeAfterLastCompleted ==
    (pc = "idle" /\ exists /\ outcome.status = "error" /\ outcome.error = "step"
       /\ AllFail(recipe))
        => ResumePosition(disk, recipe) = PositionAfterLastCompleted(disk, recipe)

----------------------------------------------------------------------------
(* Approval gates *)

PendingStage(state) == get_pending_approval(state)[1].stage_name

\* The prompt the recipe gives the gate of this stage.
OriginalPrompt(r, stage_name) ==
    r.stages[CHOOSE k \in 1..Len(r.stages) : r.stages[k].name = stage_name].approval.prompt

\* The session sits at a gate that nobody has decided yet.
Waiting ==
    /\ exists
    /\ get_pending_approval(disk) # <<>>
    /\ get_stage_approval_status(disk, PendingStage(disk)) = PENDING

\* list_pending_approvals has an entry for the stage with the recipe's prompt.
Listed(present, state, r, stage_name) ==
    \E e \in list_pending_approvals(present, state) :
        e.stage_name = stage_name /\ e.approval_prompt = OriginalPrompt(r, stage_name)

\* The pending approval has a timeout, and it has run out at time t.
Expired(state, t) ==
    /\ get_pending_approval(state) # <<>>
    /\ get_pending_approval(state)[1].approval_timeout > 0
    /\ t - get_pending_approval(state)[1].approval_requested_at
         >= get_pending_approval(state)[1].approval_timeout

\* C5: the resume that follows a successful deny raises the denied error.
C5_DeniedResumeRaises ==
    [][(exists /\ outcome.status = "denied" /\ Resume)
          => (outcome'.status = "error" /\ outcome'.error = "denied")]_vars

\* C6: the resume that follows a successful approve clears the pending approval
\* and continues with the following stage; it raises no denied or timeout error.
C6_ApprovedResumeContinues ==
    [][(exists /\ outcome.status = "approved" /\ Resume)
          => /\ outcome'.status = "running"
             /\ pc' = "staged"
             /\ get_pending_approval(disk') = <<>>]_vars

\* C7: a resume that finds a pending approval with default "deny" whose timeout
\* has run out sets the stage's status to TIMEOUT and raises the timeout-denied
\* error; no driver runs on.
C7_TimeoutDenies ==
    [][(exists /\ Expired(disk, now)
          /\ get_pending_approval(disk)[1].approval_default = "deny" /\ Resume)
          => /\ disk'.stage_approvals[PendingStage(disk)] = TIMEOUT
             /\ outcome'.status = "error"
             /\ outcome'.error = "timeout_denied"
             /\ pc' = "idle"]_vars

\* A resume has raised the timeout-denied error and left the status TIMEOUT.
C7_Witness ==
    /\ pc = "idle" /\ exists
    /\ outcome.status = "error" /\ outcome.error = "timeout_denied"
    /\ disk.stage_approvals[outcome.stage] = TIMEOUT

\* The step decides the gate the session waits at: approve, deny or the timeout.
Decides == disk'.stage_approvals[PendingStage(disk)] \in {APPROVED, DENIED, TIMEOUT}

\* C8 as stated: from the step that raises the pause on, every step that leaves
\* the gate undecided leaves the session listed by list_pending_approvals with
\* the original prompt.
C8_ListedUntilDecision ==
    [][/\ (pc = "staged" /\ outcome'.status = "paused_for_approval")
            => Listed(exists', disk', recipe, outcome'.stage)
       /\ Waiting
            => (Decides \/ Listed(exists', disk', recipe, PendingStage(disk)))]_vars

\* C8, amended: ... or the step is cleanup_old_sessions removing the session,
\* which has grown older than auto_cleanup_days.
C8_ListedUntilDecisionOrCleanup ==
    [][/\ (pc = "staged" /\ outcome'.status = "paused_for_approval")
            => Listed(exists', disk', recipe, outcome'.stage)
       /\ Waiting
            => \/ Decides
               \/ ~exists' /\ cleanup_old_sessions(disk, now)
               \/ Listed(exists', disk', recipe, PendingStage(disk))]_vars

\* The session has waited at its gate for some time and is still listed.
C8_Witness ==
    /\ Waiting
    /\ now > get_pending_approval(disk)[1].approval_requested_at
    /\ Listed(exists, disk, recipe, PendingStage(disk))

\* The approval timeout the recipe gives the stage.
StageTimeout(r, stage_name) ==
    r.stages[CHOOSE k \in 1..Len(r.stages) : r.stages[k].name = stage_name].approval.timeout

\* C9: for a pending approval with timeout 0, check_approval_timeout returns no
\* decision and leaves the state as it is, now and at any later time; and no
\* stage whose timeout is 0 ever has a timeout decision in its history.
C9_ZeroNeverDecides ==
    /\ (exists /\ get_pending_approval(disk) # <<>>
          /\ get_pending_approval(disk)[1].approval_timeout = 0)
         => \A t \in now..MaxTime :
               check_approval_timeout(disk, t) = [result |-> "none", state |-> disk]
    /\ \A k \in 1..Len(disk.approval_history) :
          disk.approval_history[k].reason \in {"Timeout - auto-approved", "Timeout - auto-denied"}
            => StageTimeout(recipe, disk.approval_history[k].stage) # 0

\* The first stage's gate has timeout 0; it was approved, time passed before
\* the resume, and the resume went on into the next stage.
C9_Witness ==
    /\ recipe.stages[1].approval.required
    /\ recipe.stages[1].approval.timeout = 0
    /\ failures = 0 /\ now >= 1
    /\ pc = "staged" /\ mem.stage_idx = 1
    /\ get_stage_approval_status(disk, recipe.stages[1].name) = APPROVED

\* The step is an approve or a deny that finds no pending approval, or a pending
\* approval for another stage than the one it names.
RejectedRequest ==
    /\ pc = "idle" /\ exists
    /\ \E stage_name \in StageNameInputs :
          /\ get_pending_approval(disk) = <<>> \/ PendingStage(disk) # stage_name
          /\ Approve(stage_name) \/ Deny(stage_name)

\* C10: approve or deny on a session without pending approval, or for a stage
\* other than the pending one, fails and leaves the state file as it is (every
\* step ends in an error with the state file unchanged, or is no such request).
C10_RejectedRequestChangesNothing ==
    [][(outcome'.status = "error" /\ disk' = disk) \/ ~RejectedRequest]_vars

\* An approve or deny for another stage has been refused while the session waits.
C10_Witness ==
    /\ pc = "idle" /\ Waiting
    /\ outcome.status = "error" /\ outcome.error = "stage_mismatch"

\* C11: a resume of a session whose gate is still undecided and has not timed
\* out raises the approval pause again, for the same stage and with the stored
\* prompt; it starts no driver, calls no spawner and leaves the state file as
\* it is (every step does so, or is no such resume).
C11_PendingResumePausesAgain ==
    [][(Waiting /\ ~Expired(disk, now))
          => \/ /\ outcome'.status = "paused_for_approval"
                /\ outcome'.stage = PendingStage(disk)
                /\ outcome'.prompt = get_pending_approval(disk)[1].approval_prompt
                /\ pc' = "idle" /\ spawn' = "" /\ disk' = disk
             \/ ~Resume]_vars

\* A resume has found the gate still pending, some time after the pause.
C11_Witness ==
    /\ pc = "idle" /\ Waiting /\ ~Expired(disk, now)
    /\ now > get_pending_approval(disk)[1].approval_requested_at
    /\ outcome.status = "paused_for_approval"
    /\ outcome.stage = PendingStage(disk)

----------------------------------------------------------------------------
(* Recursion limits and sub-recipes *)

\* The frames of the driver's stack that belong to sub-recipes.
SubFrames == 2..Len(tasks[Driver].stack)

\* The top-level recipe calls itself in its first step, without override.
CallsItselfFirst(r) ==
    /\ r.steps[1].type = "recipe" /\ r.steps[1].foreach = ""
    /\ r.steps[1].recipe = r.name /\ r.steps[1].recursion = <<>>

\* C12: a sub-recipe is entered only while the depth of its recursion state is
\* below max_depth (at or above it the entry is rejected with the depth error);
\* and a run of a recipe A that calls itself in its first step under
\* max_depth = 2 ends at the third entry into execute_recipe with the depth
\* error, whose recipe stack is A -> A -> A.
C12_DepthLimit ==
    /\ \A k \in SubFrames :
          tasks[Driver].stack[k].recursion_state.current_depth
            < tasks[Driver].stack[k].recursion_state.max_depth
    /\ (/\ library # EmptyDict
        /\ CallsItselfFirst(library[TopRecipe])
        /\ library[TopRecipe].recursion[1].max_depth = 2
        /\ tasks[Driver].status = "done")
         => /\ raised.status = "error" /\ raised.error.kind = "depth"
            /\ calls.entries = 3
            /\ raised.error.recursion_state[1].recipe_stack = <<"A", "A", "A">>

\* The self-calling recipe has been stopped by the depth limit 2.
C12_Witness ==
    /\ library # EmptyDict
    /\ CallsItselfFirst(library[TopRecipe])
    /\ library[TopRecipe].recursion[1].max_depth = 2
    /\ raised.status = "error" /\ raised.error.kind = "depth"
    /\ raised.error.recursion_state[1].current_depth = 2

\* C14: the total-steps error is raised only when the count of agent steps,
\* the one about to run included, exceeds max_total_steps.
C14_ErrorOnlyAboveBudget ==
    (raised.status = "error" /\ raised.error.kind = "total_steps")
        => raised.error.recursion_state[1].total_steps
             > raised.error.recursion_state[1].max_total_steps

\* The driver's step is the return of a sub-recipe into its recipe step.
ReturnsFromSubRecipe ==
    /\ tasks[Driver].status = "running"
    /\ tasks'[Driver].stack # <<>>
    /\ Len(tasks'[Driver].stack) = Len(tasks[Driver].stack) - 1

\* C15: when a sub-recipe returns into its recipe step, the parent's
\* total_steps becomes the child's total_steps, and it counts every spawner
\* call made so far, those inside the sub-recipe included.
C15_TotalPropagated ==
    [][ReturnsFromSubRecipe
         => /\ Top(tasks'[Driver].stack).recursion_state.total_steps
                 = F(Driver).recursion_state.total_steps
            /\ Top(tasks'[Driver].stack).recursion_state.total_steps = calls'.spawns]_vars

\* A sub-recipe that ran an agent step has returned to a parent that had run
\* none of its own.
C15_Witness ==
    /\ Active(Driver) /\ Len(tasks[Driver].stack) = 1
    /\ F(Driver).recursion_state.total_steps > 0
    /\ \E k \in 1..Len(F(Driver).completed_steps) :
          \E j \in 1..Len(StepsOf(F(Driver))) :
             /\ StepsOf(F(Driver))[j].id = F(Driver).completed_steps[k]
             /\ StepsOf(F(Driver))[j].type = "recipe"

\* C16: a composed run has the session of the top-level recipe and no other:
\* executing a sub-recipe step creates no session directory.
C16_NoSubRecipeSession == Len(sessions) <= 1

\* The outputs a recipe's steps may store.
OutputsOf(r) ==
    {r.steps[k].output : k \in 1..Len(r.steps)}
      \cup {r.steps[k].collect : k \in 1..Len(r.steps)}

C13_SpawnsWithinBudget ==
    library # EmptyDict
        => calls.spawns <= library[TopRecipe].recursion[1].max_total_steps

----------------------------------------------------------------------------
(* Parallel foreach *)

\* The driver of the top-level recipe has just completed a parallel loop over a
\* list that is not empty: the loop step.
ParallelLoopDone ==
    /\ Active(Driver) /\ Len(tasks[Driver].stack) = 1
    /\ F(Driver).loop.mode = "" /\ F(Driver).i >= 1
    /\ StepsOf(F(Driver))[F(Driver).i].foreach # ""
    /\ StepsOf(F(Driver))[F(Driver).i].parallel
    /\ F(Driver).completed_steps # <<>>
    /\ F(Driver).completed_steps[Len(F(Driver).completed_steps)]
         = StepsOf(F(Driver))[F(Driver).i].id
    /\ F(Driver).context["items"] # <<>>

\* C18: after a parallel loop with collect, the collected list has one entry
\* per item, in the order of the items: the entry of item x is the spawner's
\* answer to x (None where the spawner failed under on_error = continue), or,
\* for a loop of recipe steps, the final context of the sub-recipe that was
\* given x.
C18_CollectInInputOrder ==
    (ParallelLoopDone /\ StepsOf(F(Driver))[F(Driver).i].collect # "")
        => LET step == StepsOf(F(Driver))[F(Driver).i]
               items == F(Driver).context["items"]
               collected == F(Driver).context[step.collect]
           IN /\ Len(collected) = Len(items)
              /\ \A k \in 1..Len(items) :
                    IF step.type = "agent"
                    THEN collected[k] \in {Respond(items[k]), Null}
                    ELSE collected[k]["arg"] = items[k]

\* Two iterations finished in the reverse of the input order, every spawner
\* call succeeded, and the list has been collected.
C18_Witness ==
    /\ ParallelLoopDone /\ failures = 0
    /\ StepsOf(F(Driver))[F(Driver).i].collect = "all"
    /\ StepsOf(F(Driver))[F(Driver).i].type = "agent"
    /\ calls.finished = <<2, 1>>
    /\ Len(F(Driver).context["all"]) = 2

\* C19: while a parallel loop runs, the context of every iteration is the
\* loop's context with the iteration's own item bound to the loop variable (so
\* the loop's context is the one the iterations were started from); and the
\* step that ends the loop changes the context at the collect or output entry
\* only.
C19_IterationsIsolated ==
    [][/\ InParallelLoop'
            => \A k \in 1..Len(F(Driver)'.loop.items) :
                  tasks'[k].context
                    = Put(F(Driver)'.context, LoopVar(tasks'[k].step[1]),
                          F(Driver)'.loop.items[k])
       /\ (InParallelLoop /\ Active(Driver)' /\ F(Driver)'.i = F(Driver).i + 1)
            => \A key \in DOMAIN F(Driver).context \cup DOMAIN F(Driver)'.context :
                  key \notin {StepOf(Driver).collect, StepOf(Driver).output}
                    => /\ key \in DOMAIN F(Driver).context \cap DOMAIN F(Driver)'.context
                       /\ F(Driver).context[key] = F(Driver)'.context[key]]_vars

\* A parallel loop without collect over two items has stored its last result.
C19_Witness ==
    /\ ParallelLoopDone
    /\ StepsOf(F(Driver))[F(Driver).i].collect = ""
    /\ StepsOf(F(Driver))[F(Driver).i].output \in DOMAIN F(Driver).context
    /\ Len(F(Driver).context["items"]) = 2
    /\ "item" \notin DOMAIN F(Driver).context

\* C20: once the error of a parallel loop has left execute_recipe, no
\* iteration of the loop is still running or waiting for its spawner call.
C20_NoSiblingAfterError ==
    raised.status = "error"
        => \A t \in Tasks \ {Driver} : tasks[t].status \notin {"running", "waiting"}

----------------------------------------------------------------------------
(* Sequential foreach *)

\* The driver's step ends the sequential loop it is in.
SeqLoopEnds == InSequentialLoop(Driver) /\ ~InSequentialLoop(Driver)'

\* The outer context once the loop has ended: the driver's, or the one the
\* failed execute_recipe held.
OuterAfterLoop == IF Active(Driver)' THEN F(Driver)'.context ELSE raised'.context

\* The loop ends by storing its results under the name of its loop variable.
StoresUnderLoopVar ==
    /\ Active(Driver)'
    /\ Len(F(Driver)'.completed_steps) = Len(F(Driver).completed_steps) + 1
    /\ \/ StepOf(Driver).collect = LoopVar(StepOf(Driver))
       \/ StepOf(Driver).collect = "" /\ StepOf(Driver).output = LoopVar(StepOf(Driver))

\* C21 as stated: when a sequential loop ends (its last iteration succeeds, an
\* iteration fails, or skip_remaining stops it), the name of the loop variable
\* is no key of the outer context.
C21_LoopVarGone ==
    [][SeqLoopEnds => LoopVar(StepOf(Driver)) \notin DOMAIN OuterAfterLoop]_vars

\* C21, amended: when a sequential loop ends, the name of the loop variable is
\* no key of the outer context, unless the loop succeeds and stores its results
\* under that very name (collect, or output without collect): then the key
\* holds what the loop stored, the list of the results or the last result.
C21_LoopVarGoneUnlessStored ==
    [][SeqLoopEnds
         => IF StoresUnderLoopVar
            THEN /\ LoopVar(StepOf(Driver)) \in DOMAIN OuterAfterLoop
                 /\ \E result \in {Null, Respond(F(Driver).loop.items[F(Driver).loop.idx + 1])} :
                       OuterAfterLoop[LoopVar(StepOf(Driver))]
                         = IF StepOf(Driver).collect # ""
                           THEN Append(F(Driver).loop.results, result)
                           ELSE result
            ELSE LoopVar(StepOf(Driver)) \notin DOMAIN OuterAfterLoop]_vars

\* The second iteration of a sequential loop has failed, in a recipe whose
\* context has a variable named like the loop variable.
C21_Witness ==
    /\ raised.status = "error" /\ raised.error.iteration = <<1>>
    /\ "item" \in DOMAIN library[TopRecipe].context
    /\ "item" \notin DOMAIN raised.context
    /\ \E k \in 1..Len(library[TopRecipe].steps) :
          library[TopRecipe].steps[k].foreach # "" /\ ~library[TopRecipe].steps[k].parallel

\* No parallel iteration exists: the loops of the run so far were sequential.
NoIterationTasks == \A t \in Tasks \ {Driver} : tasks[t].status = "none"

\* C22: an iteration of a sequential loop that raises (the spawner failed on
\* the last attempt under on_error = fail, or the step budget is used up) ends
\* execute_recipe with an error that names the index of that iteration, having
\* called the spawner at most for that iteration; and after the error the
\* spawner is not called again.
C22_SequentialFailFast ==
    [][/\ (InSequentialLoop(Driver) /\ raised'.status = "error")
            => /\ raised'.error.iteration = <<F(Driver).loop.idx>>
               /\ Len(F(Driver).loop.results) = F(Driver).loop.idx
               /\ tasks'[Driver].status = "done"
               /\ calls'.spawns <= calls.spawns + 1
       /\ (raised.status = "error" /\ NoIterationTasks)
            => calls'.spawns = calls.spawns /\ raised' = raised]_vars

\* The spawner failed for the second of two items, after it had answered the
\* first: two spawner calls, and the error names index 1.
C22_Witness ==
    /\ raised.status = "error" /\ raised.error.kind = "step"
    /\ raised.error.iteration = <<1>>
    /\ NoIterationTasks
    /\ calls.spawns = 2
    /\ Len(library[TopRecipe].context["items"]) = 2

----------------------------------------------------------------------------
(* foreach over an empty list *)

\* The driver is at a foreach step whose list is there and empty.
AtEmptyLoop ==
    /\ AtStep(Driver) /\ StepOf(Driver).foreach # ""
    /\ StepOf(Driver).foreach \in DOMAIN F(Driver).context
    /\ F(Driver).context[StepOf(Driver).foreach] = <<>>

\* C23: a foreach step over an empty list, sequential or parallel, appends its
\* id to _skipped_steps, calls the spawner for no iteration, stores nothing
\* else in the context and raises nothing: the driver goes on to the next step.
C23_EmptyListSkips ==
    [][AtEmptyLoop
         => /\ Active(Driver)' /\ raised' = raised
            /\ F(Driver)'.i = F(Driver).i + 1
            /\ F(Driver)'.context
                 = Put(Put(F(Driver).context, "step",
                           [id |-> StepOf(Driver).id, index |-> F(Driver).i]),
                       "_skipped_steps",
                       Append(IF "_skipped_steps" \in DOMAIN F(Driver).context
                              THEN F(Driver).context["_skipped_steps"] ELSE <<>>,
                              StepOf(Driver).id))
            /\ calls'.spawns = calls.spawns
            /\ NoIterationTasks']_vars

\* Two foreach steps over the empty list have been skipped, the second a
\* parallel one, and the run has completed without a spawner call.
C23_Witness ==
    /\ raised.status = "completed" /\ calls.spawns = 0
    /\ "_skipped_steps" \in DOMAIN raised.context
    /\ raised.context["_skipped_steps"] = <<"a", "b">>
    /\ library[TopRecipe].steps[2].parallel

----------------------------------------------------------------------------
(* Retries *)

\* The call of execute_step_with_retry has ended.
RetryEnded == retrying.status \in {"returned", "raised", "skip_remaining"}

\* C24: execute_step is called at most retry.max_attempts times, once when the
\* step has no retry setting; no call follows a successful one, whose result
\* is returned as it is; and the call of execute_step_with_retry ends once
\* the attempts are used up.
C24_AtMostMaxAttempts ==
    LET config == RetryConfig(retrying.retry)
        n == Len(retrying.log)
    IN /\ n <= config.max_attempts
       /\ retrying.retry = <<>> => n <= 1
       /\ \A k \in 1..(n - 1) : retrying.log[k] = "fail"
       /\ (n > 0 /\ retrying.log[n] = "ok")
            => /\ retrying.status = "returned"
               /\ retrying.result = <<StepResult(n)>>
       /\ (n = config.max_attempts /\ retrying.status # "none") => RetryEnded
       /\ RetryEnded => n >= 1

\* The second of three attempts has succeeded and its result is returned.
C24_Witness ==
    /\ retrying.status = "returned"
    /\ RetryConfig(retrying.retry).max_attempts = 3
    /\ retrying.log = <<"fail", "ok">>
    /\ retrying.result = <<StepResult(2)>>

\* C25: there is one wait after each failed attempt that is not the final one
\* and none after the final one; the k-th wait lasts min(d, max_delay) seconds,
\* where d is initial_delay doubled k - 1 times under exponential backoff and
\* initial_delay under linear backoff.  (max_attempts = 3, initial_delay = 1,
\* max_delay = 4, exponential, two failures: the waits are 1 and 2.)
C25_Waits ==
    LET config == RetryConfig(retrying.retry)
        n == Len(retrying.log)
    IN /\ Len(retrying.sleeps) = IF RetryEnded THEN n - 1 ELSE n
       /\ \A k \in 1..Len(retrying.sleeps) :
             retrying.sleeps[k]
               = Min(IF config.backoff = "exponential"
                     THEN config.initial_delay * 2 ^ (k - 1)
                     ELSE config.initial_delay,
                     config.max_delay)
       /\ (/\ retrying.retry # <<>>
           /\ config = [max_attempts |-> 3, backoff |-> "exponential",
                        initial_delay |-> 1, max_delay |-> 4]
           /\ n = 3)
            => retrying.sleeps = <<1, 2>>

\* Two failures, then the third call returns: the waits were 1 and 2 seconds.
C25_Witness ==
    /\ retrying.status = "returned"
    /\ retrying.log = <<"fail", "fail", "ok">>
    /\ RetryConfig(retrying.retry)
         = [max_attempts |-> 3, backoff |-> "exponential",
            initial_delay |-> 1, max_delay |-> 4]
    /\ retrying.sleeps = <<1, 2>>
    /\ retrying.result = <<StepResult(3)>>

----------------------------------------------------------------------------
(* on_error *)

\* The driver's step is a step whose spawner call fails on the final attempt.
StepFails == failures' = failures + 1 /\ spawn' # ""
FailingStep == IF pc = "flat" THEN FlatStepAt ELSE StagedStepAt

\* C26: when the last attempt of a step with on_error = continue fails, the
\* driver goes on as after a successful step: nothing is raised, None is
\* stored as the step's output, the step is recorded as completed and the
\* following step is the next one to run.
C26_ContinueYieldsNull ==
    [][(StepFails /\ FailingStep.on_error = "continue")
         => /\ pc' = pc /\ outcome' = outcome
            /\ mem'.context.vars[FailingStep.output] = Null
            /\ mem'.completed_steps = Append(mem.completed_steps, FailingStep.id)
            /\ IF pc = "flat" THEN mem'.i = mem.i + 1
               ELSE mem'.stage_idx = mem.stage_idx /\ mem'.step_idx = mem.step_idx + 1]_vars

\* The first step has failed under on_error = continue and the spawner has
\* been called for the second step.
C26_Witness ==
    /\ pc # "idle" /\ failures = 1
    /\ get_all_steps(recipe)[1].on_error = "continue"
    /\ mem.context.vars[OutputTable[1]] = Null
    /\ spawn = StepIdTable[2]

\* The step loop of the flat driver is over.
FlatLoopOver == pc = "flat" /\ mem.i >= Len(recipe.steps)

\* C27: when the last attempt of a flat-recipe step with on_error =
\* skip_remaining fails, the step is not recorded as completed, nothing is
\* checkpointed or raised and the step loop is over; and once the step loop
\* is over no step is started any more: the run returns the context with
\* status completed (unless the process dies first).
C27_FlatSkipRemaining ==
    [][/\ (StepFails /\ pc = "flat" /\ FlatStepAt.on_error = "skip_remaining")
          => /\ mem'.completed_steps = mem.completed_steps
             /\ disk' = disk /\ outcome' = outcome
             /\ FlatLoopOver'
       /\ FlatLoopOver
          => /\ spawn' = ""
             /\ \/ outcome' = [NoOutcome EXCEPT !.status = "completed",
                                                 !.context = mem.context]
                \/ outcome'.status = "crashed"]_vars

\* The first of two steps has failed under skip_remaining: the loop is over
\* with no step recorded.
C27_Witness ==
    /\ FlatLoopOver /\ failures = 1
    /\ Len(recipe.steps) = 2
    /\ recipe.steps[1].on_error = "skip_remaining"
    /\ spawn = recipe.steps[1].id
    /\ mem.completed_steps = <<>>

\* The step loop of the current stage is over.
StageLoopOver == InStage /\ mem.step_idx >= Len(StageAt.steps)

\* C28: in a staged recipe, when the last attempt of a step with on_error =
\* skip_remaining fails, nothing is raised and only the step loop of the
\* current stage is over; and once the step loop of a stage is over the
\* stage is appended to completed_stages and, if it requires approval, the
\* state is saved with the gate pending and the run pauses for approval;
\* otherwise the driver moves on to the first step of the next stage.
C28_StagedSkipRemaining ==
    [][/\ (StepFails /\ pc = "staged" /\ StagedStepAt.on_error = "skip_remaining")
          => /\ pc' = pc /\ outcome' = outcome
             /\ mem'.stage_idx = mem.stage_idx
             /\ mem'.completed_stages = mem.completed_stages
             /\ StageLoopOver'
       /\ StageLoopOver
          => /\ spawn' = ""
             /\ disk'.completed_stages = Append(mem.completed_stages, StageAt.name)
             /\ disk'.current_stage_index = mem.stage_idx + 1
             /\ IF StageAt.approval.required
                THEN /\ outcome'.status = "paused_for_approval"
                     /\ outcome'.stage = StageAt.name
                     /\ get_pending_approval(disk') # <<>>
                     /\ get_pending_approval(disk')[1].stage_name = StageAt.name
                ELSE /\ pc' = pc /\ outcome' = outcome
                     /\ mem'.completed_stages = Append(mem.completed_stages, StageAt.name)
                     /\ mem'.stage_idx = mem.stage_idx + 1
                     /\ mem'.step_idx = 0]_vars

\* The run is paused at the gate of its first stage, whose first step failed
\* under skip_remaining so that a later step of the stage never ran.
C28_Witness ==
    /\ outcome.status = "paused_for_approval" /\ failures = 1
    /\ is_staged(recipe)
    /\ Len(recipe.stages[1].steps) >= 2
    /\ recipe.stages[1].steps[1].on_error = "skip_remaining"
    /\ outcome.stage = recipe.stages[1].name
    /\ disk.completed_stages = <<recipe.stages[1].name>>
    /\ disk.completed_steps = <<>>

----------------------------------------------------------------------------
(* Validation and templates *)

\* C29: a recipe that the validator passes never fails with an undefined
\* variable error from one of its prompts (the tool runs validated recipes
\* only).
C29_ValidatedRunResolves == outcome.error # "undefined_variable"

----------------------------------------------------------------------------
(* The state file across a crash *)

\* C30: whenever the process dies, during a save or after it, the load_state
\* that follows returns the state of the last completed save or the state
\* that was being saved, never an error.
C30_AtomicSave ==
    file.loaded.done
      => /\ file.loaded.error = ""
         /\ file.loaded.state \in {file.saved, file.saving}

----------------------------------------------------------------------------
(* Approval gates and the bookkeeping of a session *)

\* C31: when the step loop of a stage that requires approval is over, the
\* state file ends up as the checkpoint with cursor (next stage, step 0) on
\* which the pending approval was then recorded (the gate's fields are there
\* and the stage's status is PENDING), the invocation ends paused for that
\* stage, and no step is started.
C31_GateOrder ==
    [][(StageLoopOver /\ StageAt.approval.required)
         => /\ disk'.current_stage_index = mem.stage_idx + 1
            /\ disk'.current_step_in_stage = 0
            /\ disk'.completed_stages = Append(mem.completed_stages, StageAt.name)
            /\ disk'.completed_steps = mem.completed_steps
            /\ disk'.stage_approvals[StageAt.name] = PENDING
            /\ get_pending_approval(disk') # <<>>
            /\ get_pending_approval(disk')[1].stage_name = StageAt.name
            /\ get_pending_approval(disk')[1].approval_requested_at = now
            /\ outcome'.status = "paused_for_approval"
            /\ outcome'.stage = StageAt.name
            /\ pc' = "idle" /\ spawn' = ""]_vars

\* The run has paused at the gate of the first of two stages, all steps of
\* the first stage done and none of the second.
C31_Witness ==
    /\ pc = "idle" /\ outcome.status = "paused_for_approval"
    /\ is_staged(recipe) /\ Len(recipe.stages) >= 2
    /\ outcome.stage = recipe.stages[1].name
    /\ disk.current_stage_index = 1 /\ disk.current_step_in_stage = 0
    /\ disk.stage_approvals[recipe.stages[1].name] = PENDING
    /\ Len(disk.completed_steps) = Len(recipe.stages[1].steps)

\* The driver is at a step whose condition evaluates to false.
AtFalseCondition ==
    \/ /\ pc = "flat" /\ mem.i < Len(recipe.steps)
       /\ ConditionResult(FlatStepAt, FlatContext) = "false"
    \/ /\ AtStagedStep
       /\ ConditionResult(StagedStepAt, StagedContext) = "false"

\* C32: at a step whose condition evaluates to false the driver appends the
\* step id to _skipped_steps, calls no spawner, leaves completed_steps and
\* the state file as they are and moves on to the next step (unless the
\* process dies there).
C32_FalseConditionSkips ==
    [][AtFalseCondition
         => \/ /\ mem'.context.skipped_steps =
                     Append(mem.context.skipped_steps, FailingStep.id)
               /\ spawn' = ""
               /\ mem'.completed_steps = mem.completed_steps
               /\ disk' = disk /\ pc' = pc /\ outcome' = outcome
               /\ IF pc = "flat" THEN mem'.i = mem.i + 1
                  ELSE /\ mem'.stage_idx = mem.stage_idx
                       /\ mem'.step_idx = mem.step_idx + 1
            \/ Crash]_vars

\* The first step was skipped by its condition and the second one has run.
C32_Witness ==
    /\ pc # "idle"
    /\ mem.context.skipped_steps = <<StepIdTable[1]>>
    /\ mem.completed_steps = <<StepIdTable[2]>>
    /\ spawn = StepIdTable[2]

\* C33: whenever the staged driver starts a step (the spawner is called for
\* it), every earlier stage that requires approval has status APPROVED in
\* the state file at that time.
C33_NoStepPastUnapprovedGate ==
    [][(pc = "staged" /\ spawn' # "")
         => \A j \in 1..mem.stage_idx :
               recipe.stages[j].approval.required
                 => disk.stage_approvals[recipe.stages[j].name] = APPROVED]_vars

Decisions == {APPROVED, DENIED, TIMEOUT}

\* C34: a stage's approval status that is APPROVED, DENIED or TIMEOUT never
\* changes to another one of these three values.
C34_DecisionsStand ==
    [][\A n \in StageNames :
          (disk.stage_approvals[n] \in Decisions /\ disk'.stage_approvals[n] \in Decisions)
            => disk'.stage_approvals[n] = disk.stage_approvals[n]]_vars

NoDuplicates(s) == \A j, k \in 1..Len(s) : s[j] = s[k] => j = k

\* C35: in the state file of a session, completed_steps and completed_stages
\* hold no entry twice.
C35_NoDuplicateCompletions ==
    exists => NoDuplicates(disk.completed_steps) /\ NoDuplicates(disk.completed_stages)

\* C36: in the state file of a staged session, completed_stages is the names
\* of the stages before the cursor's stage, every step of the cursor's stage
\* before the cursor's step is in completed_steps or in _skipped_steps, and
\* no step at or after the cursor is in completed_steps.
C36_CursorAgrees ==
    (exists /\ is_staged(recipe))
      => /\ disk.completed_stages =
               [j \in 1..disk.current_stage_index |-> recipe.stages[j].name]
         /\ \A j \in 1..Len(recipe.stages) : \A k \in 1..Len(recipe.stages[j].steps) :
               LET id == recipe.stages[j].steps[k].id IN
               /\ (j = disk.current_stage_index + 1 /\ k <= disk.current_step_in_stage)
                     => id \in Range(disk.completed_steps)
                                 \cup Range(disk.context.skipped_steps)
               /\ (j > disk.current_stage_index + 1
                     \/ (j = disk.current_stage_index + 1 /\ k > disk.current_step_in_stage))
                     => id \notin Range(disk.completed_steps)

\* C37: no step id is both in _skipped_steps and in completed_steps of a run
\* (of the context and the list its driver holds and checkpoints).
C37_SkippedNotCompleted ==
    \A k \in 1..Len(tasks[Driver].stack) :
        LET f == tasks[Driver].stack[k] IN
        "_skipped_steps" \in DOMAIN f.context
          => Range(f.context["_skipped_steps"]) \cap Range(f.completed_steps) = {}

----------------------------------------------------------------------------
(* Step counts and the frame of a loop *)

\* C38: when a parallel loop of recipe steps that is the first step of the
\* top-level recipe has completed (total_steps was 0 before it), the
\* top-level total_steps is at least the number of agent steps the
\* iterations ran, each of which called the spawner once.
C38_ParallelCountsKept ==
    (ParallelLoopDone /\ F(Driver).i = 1 /\ StepsOf(F(Driver))[1].type = "recipe")
        => F(Driver).recursion_state.total_steps >= calls.spawns

\* The entry a loop step stores its results in.
StoreTarget(step) == IF step.collect # "" THEN step.collect ELSE step.output

\* C39: an iteration of a sequential loop, the last one and the end of the
\* loop included, leaves every variable of the outer context other than the
\* collect/output entry in place with its value; so does the whole loop, for
\* the variables that were there before it, one named like the loop variable
\* included.
C39_LoopFrame ==
    [][InSequentialLoop(Driver)
         => \A key \in DOMAIN F(Driver).context \ {StoreTarget(StepOf(Driver))} :
               /\ key \in DOMAIN OuterAfterLoop
               /\ OuterAfterLoop[key] = F(Driver).context[key]]_vars

----------------------------------------------------------------------------
(* Termination of an invocation *)

\* The libraries whose runs are followed to their end: A calls A and B, B is
\* one step, an agent step or a call of B itself.
RunLibraries ==
    { CallLibrary(steps_a, steps_b, config) :
        steps_a \in UNION { CallStepSeqs(MaxCallSteps, {"A", "B"}, EmptyDict, o) :
                            o \in Overrides },
        steps_b \in CallStepSeqs(1, {"B"}, EmptyDict, <<>>),
        config \in RecursionConfigs }

\* Staged recipes of plain steps whose stages need no approval or the one of
\* SkipApprovalConfigs.
GatedRecipes ==
    UNION { { [steps |-> <<>>, stages |-> StagesOf(ss, split, approvals),
                context |-> RecipeContext, recursion |-> DefaultRecursion] :
              ss \in StepSeqs(p[1], 0), split \in Splits(p[1], p[2]),
              approvals \in { a \in [1..p[2] -> SkipApprovalConfigs] :
                                Cardinality({k \in 1..p[2] : a[k].required}) <= MaxGates } } :
            p \in {q \in (1..MaxSteps) \X (1..MaxStages) : q[2] <= q[1]} }

\* The runs whose end is followed: sessions of flat recipes and of staged
\* recipes with gates, libraries of recipes that call recipes, and the
\* retries of one step.
InitRuns ==
    \/ InitOf(FlatRecipes(MaxFeatures) \cup GatedRecipes)
    \/ (library \in RunLibraries /\ InitComposed)
    \/ InitRetry

\* execute on the recipe the session was created for.
RunExecute == recipe # NoRecipe /\ Execute

\* execute_step_with_retry, called for one step.
RunRetryCall == recipe = NoRecipe /\ library = EmptyDict /\ RetryCall

\* A condition that cannot be evaluated fails again on every resume.
RunConditionError == FlatConditionRaise /\ UNCHANGED failures

\* What the code does once it has been invoked: a step of a driver, a spawner
\* call that returns or fails, an attempt of a retried step.
RunStep ==
    \/ FlatSkipStep
    \/ RunConditionError
    \/ FlatStepOk
    \/ FlatStepFail
    \/ FlatFinish
    \/ StagedStepOk
    \/ StagedStepFail
    \/ StageComplete
    \/ StagedFinish
    \/ AgentStepOk(Driver)
    \/ AgentStepFail(Driver)
    \/ EnterRecipe(Driver)
    \/ ReturnRecipe(Driver)
    \/ ComposedFinish
    \/ AttemptOk
    \/ AttemptFail

NextRuns ==
    \/ RunExecute
    \/ Resume
    \/ \E stage_name \in StageNameInputs : Approve(stage_name)
    \/ ComposedExecute
    \/ RunRetryCall
    \/ FlatSkipStep
    \/ RunConditionError
    \/ FlatStepOk
    \/ FlatStepFail
    \/ FlatFinish
    \/ StagedStepOk
    \/ StagedStepFail
    \/ StageComplete
    \/ StagedFinish
    \/ AgentStepOk(Driver)
    \/ AgentStepFail(Driver)
    \/ EnterRecipe(Driver)
    \/ ReturnRecipe(Driver)
    \/ ComposedFinish
    \/ AttemptOk
    \/ AttemptFail

\* Where the invocation under way stands: the cursors of the drivers, the
\* depth of the stack of calls and the attempt of the retried step. Every
\* step of RunStep moves it.
Position ==
    <<pc, mem.i, mem.stage_idx, mem.step_idx, outcome.status,
      tasks[Driver].status, Len(tasks[Driver].stack),
      IF tasks[Driver].stack = <<>> THEN 0 ELSE F(Driver).i,
      raised.status, retrying.status, retrying.attempt>>

\* The invocations are the user's, so nothing forces one to happen; an
\* invocation under way keeps running, and every spawner call it waits for
\* returns or fails.
SpecRuns == InitRuns /\ [][NextRuns]_vars /\ WF_Position(RunStep)

\* The ways an invocation ends.
Ended == {"completed", "paused_for_approval", "error"}

\* C40: an execute or resume under way ends, as completed, as paused for
\* approval or with an error (the status is one value, so exactly one of
\* them); so does a run of recipes that call recipes, and so does a retried
\* step, which returns, raises or asks to skip the remaining steps.
C40_InvocationEnds ==
    /\ (pc # "idle") ~> (pc = "idle" /\ outcome.status \in Ended)
    /\ (tasks[Driver].status = "running") ~> (raised.status \in Ended)
    /\ (retrying.status = "running")
          ~> (retrying.status \in {"returned", "raised", "skip_remaining"})

\* A recipe that calls itself has been stopped by max_depth.
C40_Witness ==
    /\ raised.status = "error"
    /\ raised.error.kind = "depth"
    /\ Len(raised.error.recursion_state[1].recipe_stack) > 1
====
